---------------------------- MODULE Spec2Model ----------------------------
(***************************************************************************)
(* HealChain NDD-FE: masked encryption of integer vectors, homomorphic     *)
(* recombination and integer recovery by a cached baby-step/giant-step     *)
(* search (src/crypto/ndd_fe.py).                                          *)
(*                                                                         *)
(* The curve group is the cyclic group of prime order N generated by G.    *)
(* A point is written by its discrete logarithm: Pt(k) is k*G.  Python     *)
(* values that stand for the identity are kept apart, as the code keeps    *)
(* them apart: None (Python's None) and Inf (tinyec's Inf object, whose    *)
(* x and y are None).                                                      *)
(*                                                                         *)
(* Scale: secp256r1's 256-bit order is scaled down to the 8-bit prime 251, *)
(* and with it the magnitudes that live inside the group: the recovery     *)
(* floor 1024 becomes 16, the margin 16 becomes 4 and the aggregator's     *)
(* weight scale 1000 becomes 10.  Every scalar computation is done mod N   *)
(* as in the source.                                                       *)
(*                                                                         *)
(* The gradient compressor and the Merkle-leaf codec (src/crypto/dgc.py)   *)
(* follow, with the parallel chunked call and the concurrent callers of    *)
(* the baby-step cache.  There a float is an integer count of quanta, the  *)
(* 53-bit significand that rounds k is scaled to 4 bits, np.int64 is       *)
(* scaled to 2^30 in the compressor, and in the leaf codec a byte holds    *)
(* one bit while every field keeps its width in bytes.                     *)
(***************************************************************************)
EXTENDS Integers, Sequences, FiniteSets, TLC

\* Group order (curve.field.n), scaled.
N == 251
\* dynamic_bound and chunk bound: max(1024, abs(S) + 16), scaled.
MinBound == 16
Margin == 4

\* ------------------------------------------------------------ model bounds
NumMiners == 3
MaxLen == 2

Miners == 1..NumMiners

\* ------------------------------------------------------------------ points
None == <<"None", 0>>
Inf == <<"Inf", 0>>
Pt(k) == <<"Pt", k>>
G == Pt(1)
\* What a raised TypeError is written as where a point was expected.
TypeError == <<"TypeError", 0>>

\* `pt is None or pt.x is None or pt.y is None`
IsIdentity(pt) == pt[1] # "Pt"

\* Affine coordinates of k*G.  Only their symmetry is kept: k*G and
\* -(k*G) = (N-k)*G share x, and their y are y and FieldP - y with FieldP
\* odd, hence of opposite parity.
FieldP == 2 * N + 1
PtX(k) == IF 2 * k < N THEN k ELSE N - k
PtY(k) == IF 2 * k < N THEN 2 * k ELSE FieldP - 2 * (N - k)

\* tinyec Point.__mul__ / __rmul__ on a point that is not the identity.
PointMul(pt, scalar) ==
  IF scalar % N = 0 THEN Inf ELSE Pt((pt[2] * (scalar % N)) % N)

\* tinyec `p + q` (Point.__add__, Inf.__add__).  Inf + Inf builds Inf()
\* without its curve argument and raises TypeError.
PointAdd(p, q) ==
  CASE p[1] = "Pt" /\ q[1] = "Pt" ->
         IF (p[2] + q[2]) % N = 0 THEN Inf ELSE Pt((p[2] + q[2]) % N)
    [] p[1] = "Pt" /\ q[1] = "Inf" -> p
    [] p[1] = "Inf" /\ q[1] = "Pt" -> q
    [] OTHER -> TypeError

\* Python `a == b` on tinyec objects and None: both __eq__ test
\* isinstance first, so an Inf equals only an Inf, a Point only a Point
\* with the same coordinates, and None equals only None.
PointEq(a, b) ==
  CASE a[1] = "Pt" /\ b[1] = "Pt" -> PtX(a[2]) = PtX(b[2]) /\ PtY(a[2]) = PtY(b[2])
    [] a[1] = "Inf" /\ b[1] = "Inf" -> TRUE
    [] a[1] = "None" /\ b[1] = "None" -> TRUE
    [] OTHER -> FALSE

\* The same group element, whatever the Python representation.
SameElement(a, b) ==
  IF IsIdentity(a) \/ IsIdentity(b) THEN IsIdentity(a) /\ IsIdentity(b)
  ELSE a[2] = b[2]

point_to_bytes(pt) ==
  IF IsIdentity(pt) THEN <<0, 0>> ELSE <<PtX(pt[2]), PtY(pt[2])>>

\* SHA-256 of a payload, read as a big-endian integer: a fixed mixing
\* function of every payload field.  The digest is a nonzero residue (the
\* real digest is 0 mod n with probability 2^-256).
RECURSIVE Sha256Mix(_, _)
Sha256Mix(payload, h) ==
  IF payload = <<>> THEN h
  ELSE Sha256Mix(Tail(payload), (h * 31 + Head(payload) + 7) % (N - 1))
Sha256Int(payload) == 1 + Sha256Mix(payload, 17)

derive_ri_from_shared(shared_point, c, tid) ==
  Sha256Int(point_to_bytes(shared_point) \o <<c, Len(tid)>> \o tid) % N

safe_scalar_mul(point, scalar) ==
  IF IsIdentity(point) THEN None ELSE PointMul(point, scalar)

\* key_gen: pk = sk * G
PublicKey(sk) == PointMul(G, sk)

\* Python int(round(num / den)) for den > 0: round half to even.
PyRound(num, den) ==
  LET q == num \div den
      r == num - q * den
  IN  IF 2 * r < den THEN q
      ELSE IF 2 * r > den THEN q + 1
      ELSE IF q % 2 = 0 THEN q ELSE q + 1

\* int(round(w * scale_weights)) for a weight w = <<num, den>>
ScaledWeight(w, scale) == PyRound(w[1] * scale, w[2])

RECURSIVE key_derive_loop(_, _, _, _, _, _, _, _)
key_derive_loop(skTP, pks, ws, c, tid, scale, i, acc) ==
  IF i > Len(pks) \/ i > Len(ws) THEN acc
  ELSE LET shared == PointMul(pks[i], skTP)
           r_i == derive_ri_from_shared(shared, c, tid)
           w_scaled == ScaledWeight(ws[i], scale) % N
       IN  key_derive_loop(skTP, pks, ws, c, tid, scale, i + 1,
                           (acc + r_i * w_scaled) % N)

key_derive(skTP, pks, ws, c, tid, scale) ==
  key_derive_loop(skTP, pks, ws, c, tid, scale, 1, 0)

\* Faulty variant: the miner hashes the next round's counter.
MinerSeedNextRound(sk_miner, pkTP, c, tid) ==
  derive_ri_from_shared(PointMul(pkTP, sk_miner), c + 1, tid)

\* The mask seed a miner derives, and its ciphertext vector.
MinerSeed(sk_miner, pkTP, c, tid) ==
  derive_ri_from_shared(PointMul(pkTP, sk_miner), c, tid)

encrypt_integer_vector(sk_miner, pkTP, pkA, int_delta, c, tid) ==
  LET r_i == MinerSeed(sk_miner, pkTP, c, tid)
      mask == PointMul(pkTP, r_i)
  IN  [k \in 1..Len(int_delta) |->
         PointAdd(mask, PointMul(pkA, int_delta[k] % N))]

\* ------------------------------------------------------------ cached BSGS
KeyNone == <<-1, -1>>
_point_key(pt) ==
  IF IsIdentity(pt) THEN KeyNone ELSE <<PtX(pt[2]), PtY(pt[2]) % 2>>

\* Faulty variant: the square root rounded down.
FloorSqrt(bound) == CHOOSE m \in 0..bound : m * m <= bound /\ (m + 1) * (m + 1) > bound

\* int(math.ceil(math.sqrt(bound))) for bound >= 0
CeilSqrt(bound) == CHOOSE m \in 0..bound : m * m >= bound /\ (m = 0 \/ (m - 1) * (m - 1) < bound)

Max(S) == CHOOSE x \in S : \A y \in S : y <= x

\* The loop of _precompute_babysteps: baby[(None, None)] = 0, then
\* baby[_point_key(j * G)] = j for j in range(1, m), a later j overwriting.
\* BabyUpTo(j) is the table after the iterations 1..j.
RECURSIVE BabyUpTo(_)
BabyUpTo(j) ==
  IF j <= 0 THEN KeyNone :> 0
  ELSE (_point_key(PointMul(G, j)) :> j) @@ BabyUpTo(j - 1)
BabyTable(m) == BabyUpTo(m - 1)

\* Returns the table, m and the cache after the call.
_precompute_babysteps(bound, cache) ==
  LET m == CeilSqrt(bound)
  IN  IF m \in DOMAIN cache
      THEN [baby |-> cache[m], m |-> m, cache |-> cache]
      ELSE LET baby == BabyTable(m)
           IN  [baby |-> baby, m |-> m, cache |-> (m :> baby) @@ cache]

\* candidate = i * m + baby[key] when key is in the table, else no candidate
Candidate(baby, m, i, key) ==
  IF key \in DOMAIN baby THEN i * m + baby[key] ELSE -1

\* Faulty variant: the range test `candidate < bound` is left out.
AcceptsAnyRange(pt, bound, candidate) ==
  candidate >= 0 /\ PointEq(PointMul(G, candidate), pt)

\* `candidate < bound` and the final verification `candidate * G == pt`
Accepts(pt, bound, candidate) ==
  candidate >= 0 /\ candidate < bound /\ PointEq(PointMul(G, candidate), pt)

RECURSIVE bsgs_loop(_, _, _, _, _, _, _)
\* Giant step i once its candidate is known.
bsgs_step(pt, bound, baby, m, neg_mG, i, current, candidate) ==
  IF Accepts(pt, bound, candidate) THEN candidate
  ELSE IF PointAdd(current, neg_mG) = TypeError THEN -1
  ELSE bsgs_loop(pt, bound, baby, m, neg_mG, i + 1, PointAdd(current, neg_mG))

bsgs_loop(pt, bound, baby, m, neg_mG, i, current) ==
  IF i >= m THEN -1
  ELSE bsgs_step(pt, bound, baby, m, neg_mG, i, current,
                 Candidate(baby, m, i, _point_key(current)))

\* Returns [val, cache]: x in [0, bound) with x*G == pt or -1, and the
\* baby-step cache the call leaves.
bsgs_cached(pt, bound, cache) ==
  IF IsIdentity(pt) THEN [val |-> 0, cache |-> cache]
  ELSE LET pre == _precompute_babysteps(bound, cache)
           neg_mG == PointMul(G, (-pre.m) % N)
       IN  [val |-> bsgs_loop(pt, bound, pre.baby, pre.m, neg_mG, 0, pt),
            cache |-> pre.cache]


\* -------------------------------------------------------- decrypt_aggregate
\* `miner_int_updates=None`
NoUpdates == <<>>

\* pow(sk_A, -1, N) by the extended Euclidean algorithm
RECURSIVE EGcd(_, _)
EGcd(a, b) ==
  IF a = 0 THEN <<b, 0, 1>>
  ELSE LET g == EGcd(b % a, a)
       IN  <<g[1], g[3] - (b \div a) * g[2], g[2]>>
ModInv(a) == EGcd(a % N, N)[2] % N

Abs(x) == IF x < 0 THEN -x ELSE x
Min2(a, b) == IF a < b THEN a ELSE b
Max2(a, b) == IF a > b THEN a ELSE b

\* zip(a, b) stops at the shorter list
ZipLen(a, b) == Min2(Len(a), Len(b))

\* sum of int(w) * int(upd[k]) over zip(weights, updates), exact integers
RECURSIVE SignedSumLoop(_, _, _, _, _)
SignedSumLoop(ws, upds, k, i, acc) ==
  IF i > ZipLen(ws, upds) THEN acc
  ELSE SignedSumLoop(ws, upds, k, i + 1, acc + ws[i] * upds[i][k])
SignedSum(ws, upds, k) == SignedSumLoop(ws, upds, k, 1, 0)

\* S_mod: the same sum over w_mod and clipped = int(upd[k]) % N, mod N
RECURSIVE ModSumLoop(_, _, _, _, _)
ModSumLoop(wmods, upds, k, i, acc) ==
  IF i > ZipLen(wmods, upds) THEN acc
  ELSE ModSumLoop(wmods, upds, k, i + 1, (acc + wmods[i] * (upds[i][k] % N)) % N)
ModSum(wmods, upds, k) == ModSumLoop(wmods, upds, k, 1, 0)

\* agg for parameter k: the weighted sum of the miners' ciphertext points,
\* started from None; TypeError when an addition raises.
RECURSIVE AggLoop(_, _, _, _, _)
AggLoop(ciphertexts_U, wmods, k, i, agg) ==
  IF i > ZipLen(ciphertexts_U, wmods) THEN agg
  ELSE LET tmp == safe_scalar_mul(ciphertexts_U[i][k], wmods[i])
           nxt == IF agg = None THEN tmp
                  ELSE IF tmp # None THEN PointAdd(agg, tmp) ELSE agg
       IN  IF nxt = TypeError THEN TypeError
           ELSE AggLoop(ciphertexts_U, wmods, k, i + 1, nxt)

\* Faulty variant: the functional mask is left on the aggregate.
RemoveMaskKept(agg, global_mask) == agg

\* E: agg with the functional mask pk_TP * sk_FE removed
RemoveMask(agg, global_mask) ==
  IF agg = None THEN None
  ELSE IF global_mask = None THEN agg
  ELSE LET neg_global == safe_scalar_mul(global_mask, (-1) % N)
       IN  IF neg_global = None THEN agg ELSE PointAdd(agg, neg_global)

\* E_star for parameter k, or TypeError
Unmask(agg, skFE, skA, pkTP) ==
  IF agg = TypeError THEN TypeError
  ELSE safe_scalar_mul(RemoveMask(agg, safe_scalar_mul(pkTP, skFE)), ModInv(skA))

EStar(skFE, skA, pkTP, ciphertexts_U, wmods, k) ==
  Unmask(AggLoop(ciphertexts_U, wmods, k, 1, None), skFE, skA, pkTP)

\* The signed mapping of lines 287-289.
Signed(val) == IF val > N \div 2 THEN val - N ELSE val

\* Faulty variant: a failed retry is reported as the value 0.
RecoverNegSilent(neg) ==
  [found |-> TRUE, val |-> IF neg.val >= 0 THEN -neg.val ELSE 0, cache |-> neg.cache]

\* The recovery of one parameter (lines 276-289): the positive search, the
\* retry on the negated point, the signed mapping.  found = FALSE is the
\* bound-insufficient error.
RecoverNeg(neg) ==
  IF neg.val >= 0
  THEN [found |-> TRUE, val |-> Signed(-neg.val), cache |-> neg.cache]
  ELSE [found |-> FALSE, val |-> 0, cache |-> neg.cache]

RecoverPos(E_star, dynamic_bound, pos) ==
  IF pos.val >= 0
  THEN [found |-> TRUE, val |-> Signed(pos.val), cache |-> pos.cache]
  ELSE LET neg_E_star == IF E_star = None THEN None
                         ELSE safe_scalar_mul(E_star, (-1) % N)
       IN  RecoverNeg(bsgs_cached(neg_E_star, dynamic_bound, pos.cache))

RecoverOne(E_star, dynamic_bound, cache) ==
  RecoverPos(E_star, dynamic_bound, bsgs_cached(E_star, dynamic_bound, cache))

\* The bound handed to BSGS for parameter k (lines 265-274).
DynamicBound(wraw, bsgs_bound, miner_int_updates, k) ==
  IF miner_int_updates # NoUpdates
  THEN Max2(MinBound, Abs(SignedSum(wraw, miner_int_updates, k)) + Margin)
  ELSE bsgs_bound

\* The loop over k.  The outcome is [kind, vec, k, cache, log]: kind "ok"
\* with the recovered vector, or the error raised at parameter k (1-based);
\* log lists <<k, bound>> for every parameter handed to BSGS.
Failure(kind, k, cache, log) ==
  [kind |-> kind, vec |-> <<>>, k |-> k, cache |-> cache, log |-> log]

RECURSIVE decrypt_loop(_, _, _, _, _, _, _, _, _, _, _, _)
\* Parameter k once BSGS has answered.
decrypt_recovered(skFE, skA, pkTP, ciphertexts_U, wraw, wmods, bsgs_bound, miner_int_updates, k, recovered, log, rec) ==
  IF ~rec.found THEN Failure("BoundError", k, rec.cache, log)
  ELSE decrypt_loop(skFE, skA, pkTP, ciphertexts_U, wraw, wmods, bsgs_bound,
                    miner_int_updates, k + 1, Append(recovered, rec.val),
                    rec.cache, log)

\* Parameter k once E_star is computed: the consistency check, then BSGS.
decrypt_param(skFE, skA, pkTP, ciphertexts_U, wraw, wmods, bsgs_bound, miner_int_updates, k, recovered, cache, log, E_star) ==
  LET plain == miner_int_updates # NoUpdates
      expected_point == safe_scalar_mul(G, ModSum(wmods, miner_int_updates, k))
      dynamic_bound == DynamicBound(wraw, bsgs_bound, miner_int_updates, k)
  IN  IF E_star = TypeError THEN Failure("TypeError", k, cache, log)
      ELSE IF plain /\ ~PointEq(E_star, expected_point)
      THEN Failure("MismatchError", k, cache, log)
      ELSE decrypt_recovered(skFE, skA, pkTP, ciphertexts_U, wraw, wmods,
                             bsgs_bound, miner_int_updates, k, recovered,
                             Append(log, <<k, dynamic_bound>>),
                             RecoverOne(E_star, dynamic_bound, cache))

decrypt_loop(skFE, skA, pkTP, ciphertexts_U, wraw, wmods, bsgs_bound, miner_int_updates, k, recovered, cache, log) ==
  IF k > Len(ciphertexts_U[1])
  THEN [kind |-> "ok", vec |-> recovered, k |-> 0, cache |-> cache, log |-> log]
  ELSE decrypt_param(skFE, skA, pkTP, ciphertexts_U, wraw, wmods, bsgs_bound,
                     miner_int_updates, k, recovered, cache, log,
                     EStar(skFE, skA, pkTP, ciphertexts_U, wmods, k))

\* weight_scaled_raw and weight_scaled_mod (lines 212-213)
WeightsRaw(ws, scale) == [i \in 1..Len(ws) |-> ScaledWeight(ws[i], scale)]
WeightsMod(ws, scale) == [i \in 1..Len(ws) |-> ScaledWeight(ws[i], scale) % N]

decrypt_aggregate(skFE, skA, pkTP, ciphertexts_U, ws, scale, bsgs_bound, miner_int_updates, cache) ==
  decrypt_loop(skFE, skA, pkTP, ciphertexts_U, WeightsRaw(ws, scale),
               WeightsMod(ws, scale), bsgs_bound, miner_int_updates, 1, <<>>,
               cache, <<>>)

\* ------------------------------------------------ decrypt_aggregate_chunked
\* Faulty variant: only the chunks of full size, a shorter last one is left out.
ChunksFullOnly(L, chunk_size) == [c \in 1..(L \div chunk_size) |-> <<(c - 1) * chunk_size, c * chunk_size>>]

\* chunks: (i, min(L, i + chunk_size)) for i in range(0, L, chunk_size),
\* 0-based and half-open as in the source.
Chunks(L, chunk_size) ==
  [c \in 1..((L + chunk_size - 1) \div chunk_size) |->
     <<(c - 1) * chunk_size, Min2(L, c * chunk_size)>>]

\* max over idx in range(start, end) of abs(sum of w * upd[idx])
MaxAbsS(wraw, upds, start, end) ==
  IF start >= end THEN 0
  ELSE Max({Abs(SignedSum(wraw, upds, idx + 1)) : idx \in start..(end - 1)})

\* Faulty variant: the bound is cut to the cap and the cut is not reported.
compute_chunk_bound_truncating(wraw, upds, start, end, max_chunk_bound_cap) ==
  [capped |-> Min2(Max2(MaxAbsS(wraw, upds, start, end) + Margin, MinBound),
                   max_chunk_bound_cap),
   max_abs_S |-> MaxAbsS(wraw, upds, start, end), hit_cap |-> FALSE]

compute_chunk_bound_py(wraw, upds, start, end, max_chunk_bound_cap) ==
  LET max_abs_S == MaxAbsS(wraw, upds, start, end)
      bound == Max2(max_abs_S + Margin, MinBound)
  IN  [capped |-> Min2(bound, max_chunk_bound_cap), max_abs_S |-> max_abs_S,
       hit_cap |-> bound > max_chunk_bound_cap]

\* The slice ciphertexts_U[i][start:end] of every miner
ChunkCts(ciphertexts_U, start, end) ==
  [i \in 1..Len(ciphertexts_U) |-> SubSeq(ciphertexts_U[i], start + 1, end)]

\* solve_chunk: the cap check, then decrypt_aggregate on the slice with the
\* chunk's bound and no plaintext.
ChunkOutcome(r, bound) ==
  [kind |-> r.kind, vec |-> r.vec, cache |-> r.cache, bound |-> bound]

solve_chunk(skFE, skA, pkTP, ciphertexts_U, ws, upds, scale, start, end, max_chunk_bound_cap, cache) ==
  LET cb == compute_chunk_bound_py(WeightsRaw(ws, scale), upds, start, end,
                                   max_chunk_bound_cap)
  IN  IF cb.hit_cap
      THEN [kind |-> "CapError", vec |-> <<>>, cache |-> cache, bound |-> 0]
      ELSE ChunkOutcome(decrypt_aggregate(skFE, skA, pkTP,
                                          ChunkCts(ciphertexts_U, start, end),
                                          ws, scale, cb.capped, NoUpdates, cache),
                        cb.capped)

\* Faulty variant: every chunk is written at the front of the vector.
AssignFront(recovered, start, end, vec) ==
  [k \in 1..Len(recovered) |->
     IF k <= end - start THEN vec[k] ELSE recovered[k]]

\* recovered[start:end] = vec
Assign(recovered, start, end, vec) ==
  [k \in 1..Len(recovered) |->
     IF k > start /\ k <= end THEN vec[k - start] ELSE recovered[k]]

\* The sequential loop over the chunks.  The outcome is [kind, vec, start,
\* end, cache, log]: "ok" with the vector, or the error raised in chunk
\* [start:end]; log lists <<start, end, bound>> for every chunk handed to
\* decrypt_aggregate.
RECURSIVE chunk_loop(_, _, _, _, _, _, _, _, _, _, _, _, _)
\* Chunk c once solve_chunk has answered.
chunk_solved(skFE, skA, pkTP, ciphertexts_U, ws, upds, scale, cap, chunks, c, recovered, log, start, end, r) ==
  IF r.kind = "CapError"
  THEN [kind |-> r.kind, vec |-> <<>>, start |-> start, end |-> end,
        cache |-> r.cache, log |-> log]
  ELSE IF r.kind # "ok"
  THEN [kind |-> r.kind, vec |-> <<>>, start |-> start, end |-> end,
        cache |-> r.cache, log |-> Append(log, <<start, end, r.bound>>)]
  ELSE chunk_loop(skFE, skA, pkTP, ciphertexts_U, ws, upds, scale, cap,
                  chunks, c + 1, Assign(recovered, start, end, r.vec),
                  r.cache, Append(log, <<start, end, r.bound>>))

chunk_loop(skFE, skA, pkTP, ciphertexts_U, ws, upds, scale, cap, chunks, c, recovered, cache, log) ==
  IF c > Len(chunks)
  THEN [kind |-> "ok", vec |-> recovered, start |-> 0, end |-> 0,
        cache |-> cache, log |-> log]
  ELSE chunk_solved(skFE, skA, pkTP, ciphertexts_U, ws, upds, scale, cap,
                    chunks, c, recovered, log, chunks[c][1], chunks[c][2],
                    solve_chunk(skFE, skA, pkTP, ciphertexts_U, ws, upds, scale,
                                chunks[c][1], chunks[c][2], cap, cache))

decrypt_aggregate_chunked(skFE, skA, pkTP, ciphertexts_U, ws, upds, scale, chunk_size, max_chunk_bound_cap, cache) ==
  chunk_loop(skFE, skA, pkTP, ciphertexts_U, ws, upds, scale,
             max_chunk_bound_cap, Chunks(Len(ciphertexts_U[1]), chunk_size), 1,
             [k \in 1..Len(ciphertexts_U[1]) |-> 0], cache, <<>>)

\* ------------------------------------------------------------------ state
VARIABLES
  sk_A,           \* the aggregator's secret key
  sk_TP,          \* the task publisher's secret key
  sk_miners,      \* each miner's secret key
  ctr,            \* the round counter the miners encrypt under
  ctr_TP,         \* the round counter the task publisher derives sk_FE under
  task_id,        \* the task identifier (bytes)
  weights_y,      \* each miner's weight <<num, den>>
  scale_weights,
  updates,        \* each miner's integer update vector
  updates_alt,    \* a second execution's update vectors (same keys and round)
  cts,            \* ciphertexts_U: each miner's ciphertext vector, <<>> before
  cts_alt,        \* the second execution's ciphertexts
  r_miner,        \* the mask seed each miner derived (0 before it encrypts)
  r_TP,           \* the mask seeds key_derive derived (<<>> before)
  sk_FE,          \* the functional key, NoKey before key_derive
  BABY_CACHE,     \* _BABY_CACHE: m -> baby-step table
  result,         \* outcome of the decrypt_aggregate call
  resultC,        \* outcome of the decrypt_aggregate_chunked call
  bsgsCall,       \* the last direct bsgs_cached call
  dgc,            \* one DGC object: tau, max_int, min_nonzeros, residual_sparse
  dgcCall,        \* the last compress_and_quantize call and its decompression
  leafCall,       \* the last pack_leaf / unpack_leaf call
  resultP,        \* outcome of decrypt_aggregate_chunked(parallel=True)
  workers,        \* each concurrent bsgs_cached caller's position and locals
  aggregator,     \* one Aggregator object: W_current, round_ctr, _sk_FE_set
  aggCall,        \* the secure_aggregate_and_evaluate call: position and locals
  orch,           \* the orchestrator's training loop: its locals and rounds
  round,          \* one orchestrated round: who derived and who combined what
  server          \* the simulation server: STATE, its threads and requests

vars == <<sk_A, sk_TP, sk_miners, ctr, ctr_TP, task_id, weights_y,
          scale_weights, updates, updates_alt, cts, cts_alt, r_miner, r_TP,
          sk_FE, BABY_CACHE, result, resultC, bsgsCall,
          dgc, dgcCall, leafCall, resultP, workers,
          aggregator, aggCall, orch, round, server>>

inputs == <<sk_A, sk_TP, sk_miners, ctr, ctr_TP, task_id, weights_y,
            scale_weights, updates, updates_alt>>

NoKey == -1
NoResult == [kind |-> "none", vec |-> <<>>, k |-> 0, log |-> <<>>,
             bsgs_bound |-> 0, plain |-> FALSE]
NoResultC == [kind |-> "none", vec |-> <<>>, start |-> 0, end |-> 0,
              log |-> <<>>, chunk_size |-> 0, cap |-> 0]
NoCall == [s |-> 0, bound |-> 0, val |-> 0, cached |-> FALSE, called |-> FALSE]

\* The variables of the gradient compressor, the leaf codec, the parallel
\* chunked call and the concurrent cache callers, and their values while
\* those parts of the program are not running.
later == <<aggregator, aggCall, orch, round, server>>
Idle == [kind |-> "none"]
LaterIdle == aggregator = Idle /\ aggCall = Idle /\ orch = Idle /\ round = Idle /\ server = Idle
others == <<dgc, dgcCall, leafCall, resultP, workers, later>>
\* residual_sparse is None, or the pair (indices, floats)
NoneResidual == [none |-> TRUE, idx |-> <<>>, vals |-> <<>>]
NoDgc == [tau |-> <<0, 1>>, max_int |-> 1, min_nonzeros |-> 1, unit |-> "normal", residual_sparse |-> NoneResidual, calls |-> 0]
NoDgcCall == [kind |-> "none"]
NoLeafCall == [kind |-> "none"]
NoWorkers == <<>>
OthersIdle == dgc = NoDgc /\ dgcCall = NoDgcCall /\ leafCall = NoLeafCall /\ resultP = NoResultC /\ workers = NoWorkers /\ LaterIdle

\* ----------------------------------------------------------------- inputs
\* Key material (key_gen draws each secret from [1, N-1]) and the round the
\* task publisher derives sk_FE under; the miners encrypt under round 1.
KeyChoices ==
  { [A |-> 2, TP |-> 3, miners |-> [i \in Miners |-> 10 + i], ctr_TP |-> 1],
    [A |-> 126, TP |-> N - 1, miners |-> [i \in Miners |-> 37 * i], ctr_TP |-> 1],
    [A |-> 2, TP |-> 3, miners |-> [i \in Miners |-> 10 + i], ctr_TP |-> 2] }

\* Sparse update vectors of length L: all zero, -1 at the end, and 1 in
\* front with -1 at the end.
UnitVec(L, pos, v) == [k \in 1..L |-> IF k = pos THEN v ELSE 0]
PlusMinus(L) == [k \in 1..L |-> IF k = 1 THEN 1 ELSE IF k = L THEN -1 ELSE 0]
MinerVecs(L) == {UnitVec(L, 1, 0), UnitVec(L, L, -1), PlusMinus(L)}

\* Weights: uniform 1/h, all 1, and (i-1)/2; weight scales 1 and 10.
WeightChoices ==
  { [i \in Miners |-> <<1, NumMiners>>],
    [i \in Miners |-> <<1, 1>>],
    [i \in Miners |-> <<i - 1, 2>>] }
ScaleChoices == {1, 10}

\* The second execution: miners 1 and 2 exchange their vectors.
SwapFirstTwo(upds) ==
  [i \in DOMAIN upds |-> IF i = 1 THEN upds[2] ELSE IF i = 2 THEN upds[1] ELSE upds[i]]

\* Arguments of the recovery calls.
BoundChoices == {2, MinBound, N}
\* chunk sizes: one parameter each, the whole vector, and more than the vector
ChunkSizes == {1, MaxLen, MaxLen + 1}
CapChoices == {12, 24, 268435456}

Init ==
  /\ \E keys \in KeyChoices :
       /\ sk_A = keys.A
       /\ sk_TP = keys.TP
       /\ sk_miners = keys.miners
       /\ ctr_TP = keys.ctr_TP
  /\ ctr = 1
  /\ task_id = <<116, 49>>
  /\ weights_y \in WeightChoices
  /\ scale_weights \in ScaleChoices
  /\ updates \in [Miners -> MinerVecs(MaxLen)]
  /\ updates_alt = SwapFirstTwo(updates)
  /\ cts = [i \in Miners |-> <<>>]
  /\ cts_alt = [i \in Miners |-> <<>>]
  /\ r_miner = [i \in Miners |-> 0]
  /\ r_TP = <<>>
  /\ sk_FE = NoKey
  /\ BABY_CACHE = <<>>
  /\ result = NoResult
  /\ resultC = NoResultC
  /\ bsgsCall = NoCall
  /\ OthersIdle

pk_A == PublicKey(sk_A)
pk_TP == PublicKey(sk_TP)
pk_miners == [i \in Miners |-> PublicKey(sk_miners[i])]

\* ---------------------------------------------------------------- actions
\* The task publisher derives the functional key.
KeyDerive ==
  /\ sk_FE = NoKey
  /\ sk_FE' = key_derive(sk_TP, pk_miners, weights_y, ctr_TP, task_id, scale_weights)
  /\ r_TP' = [i \in Miners |->
                derive_ri_from_shared(PointMul(pk_miners[i], sk_TP), ctr_TP, task_id)]
  /\ UNCHANGED <<inputs, cts, cts_alt, r_miner, BABY_CACHE, result, resultC, bsgsCall>>
  /\ UNCHANGED others

\* Miner i encrypts its update (in both executions).
Encrypt(i) ==
  /\ cts[i] = <<>>
  /\ cts' = [cts EXCEPT ![i] =
               encrypt_integer_vector(sk_miners[i], pk_TP, pk_A, updates[i], ctr, task_id)]
  /\ cts_alt' = [cts_alt EXCEPT ![i] =
               encrypt_integer_vector(sk_miners[i], pk_TP, pk_A, updates_alt[i], ctr, task_id)]
  /\ r_miner' = [r_miner EXCEPT ![i] = MinerSeed(sk_miners[i], pk_TP, ctr, task_id)]
  /\ UNCHANGED <<inputs, r_TP, sk_FE, BABY_CACHE, result, resultC, bsgsCall>>
  /\ UNCHANGED others

Ready == sk_FE # NoKey /\ \A i \in Miners : cts[i] # <<>>

\* The aggregator calls decrypt_aggregate over the whole vector, with or
\* without the plaintext updates.
Returned(r, bsgs_bound, plain) ==
  /\ result' = [kind |-> r.kind, vec |-> r.vec, k |-> r.k, log |-> r.log,
                bsgs_bound |-> bsgs_bound, plain |-> plain]
  /\ BABY_CACHE' = r.cache

DecryptAggregate(bsgs_bound, plain) ==
  /\ Ready
  /\ result.kind = "none"
  /\ Returned(decrypt_aggregate(sk_FE, sk_A, pk_TP, cts, weights_y, scale_weights,
                                bsgs_bound, IF plain THEN updates ELSE NoUpdates,
                                BABY_CACHE),
              bsgs_bound, plain)
  /\ UNCHANGED <<inputs, cts, cts_alt, r_miner, r_TP, sk_FE, resultC, bsgsCall>>
  /\ UNCHANGED others

\* The aggregator calls decrypt_aggregate_chunked (parallel=False).
ReturnedChunked(r, chunk_size, cap) ==
  /\ resultC' = [kind |-> r.kind, vec |-> r.vec, start |-> r.start,
                 end |-> r.end, log |-> r.log, chunk_size |-> chunk_size,
                 cap |-> cap]
  /\ BABY_CACHE' = r.cache

DecryptAggregateChunked(chunk_size, cap) ==
  /\ Ready
  /\ resultC.kind = "none"
  /\ ReturnedChunked(decrypt_aggregate_chunked(sk_FE, sk_A, pk_TP, cts, weights_y,
                                               updates, scale_weights, chunk_size,
                                               cap, BABY_CACHE),
                     chunk_size, cap)
  /\ UNCHANGED <<inputs, cts, cts_alt, r_miner, r_TP, sk_FE, result, bsgsCall>>
  /\ UNCHANGED others

Next ==
  \/ KeyDerive
  \/ \E i \in Miners : Encrypt(i)
  \/ \E b \in BoundChoices, plain \in BOOLEAN : DecryptAggregate(b, plain)
  \/ \E cs \in ChunkSizes, cap \in CapChoices : DecryptAggregateChunked(cs, cap)

Spec == Init /\ [][Next]_vars

\* ------------------------------------------------------ BSGS on its own
\* Direct calls bsgs_cached(s*G, bound), any number of them, on one cache.
BsgsScalars == {0, 1, 2, 4, 7, 8, 15, 16, N \div 2, N \div 2 + 1, N - 1}
BsgsBounds == {1, 2, 5, 8, MinBound, N}

PipelineIdle ==
  /\ sk_A = 2
  /\ sk_TP = 3
  /\ sk_miners = [i \in Miners |-> 10 + i]
  /\ ctr = 1
  /\ ctr_TP = 1
  /\ task_id = <<116, 49>>
  /\ weights_y = [i \in Miners |-> <<1, 1>>]
  /\ scale_weights = 1
  /\ updates = [i \in Miners |-> UnitVec(MaxLen, 1, 0)]
  /\ updates_alt = updates
  /\ cts = [i \in Miners |-> <<>>]
  /\ cts_alt = [i \in Miners |-> <<>>]
  /\ r_miner = [i \in Miners |-> 0]
  /\ r_TP = <<>>
  /\ sk_FE = NoKey
  /\ BABY_CACHE = <<>>
  /\ result = NoResult
  /\ resultC = NoResultC
  /\ bsgsCall = NoCall

pipeline == <<sk_A, sk_TP, sk_miners, ctr, ctr_TP, task_id, weights_y, scale_weights, updates, updates_alt, cts, cts_alt, r_miner, r_TP, sk_FE, BABY_CACHE, result, resultC, bsgsCall>>

InitBsgs == PipelineIdle /\ OthersIdle

\* cached: the call found its baby-step table in the cache.
ReturnedBsgs(r, s, bound) ==
  /\ bsgsCall' = [s |-> s, bound |-> bound, val |-> r.val,
                  cached |-> s % N # 0 /\ CeilSqrt(bound) \in DOMAIN BABY_CACHE,
                  called |-> TRUE]
  /\ BABY_CACHE' = r.cache

BsgsCached(s, bound) ==
  /\ ReturnedBsgs(bsgs_cached(PointMul(G, s), bound, BABY_CACHE), s, bound)
  /\ UNCHANGED <<inputs, cts, cts_alt, r_miner, r_TP, sk_FE, result, resultC>>
  /\ UNCHANGED others

NextBsgs == \E s \in BsgsScalars, bound \in BsgsBounds : BsgsCached(s, bound)

SpecBsgs == InitBsgs /\ [][NextBsgs]_vars

\* ------------------------------------------------- crypto/dgc.py: class DGC
\* A float is modelled by an integer count of quanta.  In the "normal" unit
\* the quantum is 1.0: sums, differences and comparisons of small integers
\* are exact in binary64, and a quotient is kept as the exact fraction
\* <<num, den>> (the 2^-53 relative rounding of binary64 is not modelled).
\* In the "subnormal" unit the quantum is the least positive binary64 value
\* (5e-324): subnormal floats are exactly the multiples of that quantum, and
\* the quotient of a subnormal by an integer rounds to the nearest multiple,
\* ties to even, so it underflows to 0.0 below half a quantum.
DgcDim == 3       \* n: the number of elements of the gradient
MaxCalls == 3     \* compress_and_quantize calls on one compressor

FloatUnits == {"normal", "subnormal"}

\* 1.0 in quanta (2^20 stands for 2^1074 quanta of 5e-324)
One(unit) == IF unit = "normal" THEN 1 ELSE 1048576

\* x / d for a float x of `unit` and a positive integer d
FloatDivInt(x, d, unit) == IF unit = "normal" THEN <<x, d>> ELSE <<PyRound(x, d), 1>>

\* astype(INT_DTYPE) of a float that is not finite is not defined by C; the
\* build either yields the "integer indefinite" value INT64_MIN (x86) or
\* saturates with NaN going to 0 (AArch64).  INT64 is scaled to 2^30.
Int64Max == 1073741823
Int64Min == -1073741824
CastChoices == {"indefinite", "saturating"}
CastNonFinite(v, cast) == IF cast = "indefinite" \/ v < 0 THEN Int64Min ELSE IF v > 0 THEN Int64Max ELSE 0

Clip(x, lo, hi) == IF x < lo THEN lo ELSE IF x > hi THEN hi ELSE x

\* the element of a singleton set; {e(x) : x \in {v}} names the value v
\* once for all its uses in e
The(S) == CHOOSE x \in S : TRUE

\* ascending sequence of a finite set of integers (np.sort, np.nonzero)
SortedSeq(S) == [i \in 1..Cardinality(S) |-> CHOOSE x \in S : Cardinality({y \in S : y < x}) = i - 1]

\* line 67-72: the dense residual, and flat + res_dense.  Indices are
\* 0-based as in the code; element i of a vector is flat[i + 1].
ResDense(r, n) == [i \in 1..n |-> IF \E j \in 1..Len(r.idx) : r.idx[j] = i - 1 THEN r.vals[CHOOSE j \in 1..Len(r.idx) : r.idx[j] = i - 1] ELSE 0]
AddResidualDropped(flat, r) == flat
AddResidual(flat, r) == IF r.none THEN flat ELSE [i \in 1..Len(flat) |-> flat[i] + ResDense(r, Len(flat))[i]]

\* line 76: 1.0 - tau and n * (1.0 - tau) are binary64 operations, each
\* rounded to the nearest float, ties to even.  tau is the float num / den
\* with den a power of two, and the 53-bit significand is scaled to
\* FloatBits bits: RoundToFloat(a) is the nearest integer to a with at most
\* FloatBits significant bits (a counts units of 1 / den).
FloatBits == 4
BitLen(a) == CHOOSE b \in 0..30 : a < 2^b /\ (b = 0 \/ a >= 2^(b - 1))
RoundToFloat(a) == IF a < 2^FloatBits THEN a ELSE PyRound(a, 2^(BitLen(a) - FloatBits)) * 2^(BitLen(a) - FloatBits)

\* line 76-78: k = min(max(floor(n * (1.0 - tau)), min_nonzeros), n)
KeepCount(n, tau, min_nonzeros) == Min2(Max2(RoundToFloat(n * RoundToFloat(tau[2] - tau[1])) \div tau[2], min_nonzeros), n)

\* line 81
AllZeroNever(flat) == FALSE
AllZero(flat) == \A i \in 1..Len(flat) : flat[i] = 0

\* line 88: np.partition(abs_flat, -k)[-k], the k-th largest magnitude
Kth(flat, k) == CHOOSE v \in {Abs(flat[i]) : i \in 1..Len(flat)} : Cardinality({i \in 1..Len(flat) : Abs(flat[i]) > v}) < k /\ Cardinality({i \in 1..Len(flat) : Abs(flat[i]) >= v}) >= k

\* line 89-90
MaskIdxs(flat, kth) == {i \in 0..(Len(flat) - 1) : Abs(flat[i + 1]) >= kth}

\* line 94: the order of np.lexsort((idxs, -abs_flat[idxs])): j comes
\* before i when it is larger in magnitude, or equal and lower in index.
Before(flat, j, i) == Abs(flat[j + 1]) > Abs(flat[i + 1]) \/ (Abs(flat[j + 1]) = Abs(flat[i + 1]) /\ j < i)

\* line 92-95: the first k of that order when the mask holds more than k
TrimTies(flat, idxs, k) == IF Cardinality(idxs) > k THEN {i \in idxs : Cardinality({j \in idxs : Before(flat, j, i)}) < k} ELSE idxs

\* line 86-97
SelectTopK(flat, k) == The({SortedSeq(TrimTies(flat, MaskIdxs(flat, kth), k)) : kth \in {Kth(flat, k)}})

\* line 102: max_abs in quanta (the 1.0 of an empty selection included)
MaxAbs(flat, idxs, unit) == IF Len(idxs) > 0 THEN Max({Abs(flat[idxs[j] + 1]) : j \in 1..Len(idxs)}) ELSE One(unit)

\* line 104-107
ScaleOf(max_abs, max_int, unit) == IF max_abs = 0 THEN <<One(unit), 1>> ELSE FloatDivInt(max_abs, max_int, unit)

\* line 110: np.rint(v / scale).astype(INT_DTYPE); v / 0.0 is not finite
RintCast(v, scale, cast) == IF scale[1] = 0 THEN CastNonFinite(v, cast) ELSE PyRound(v * scale[2], scale[1])

\* line 110-111
Quantize(flat, idxs, scale, max_int, cast) == [j \in 1..Len(idxs) |-> Clip(RintCast(flat[idxs[j] + 1], scale, cast), -max_int, max_int)]

\* line 114-119: everything not sent, with its float value
ResidualKeepAll(flat, idxs) == [none |-> FALSE, idx |-> SortedSeq(0..(Len(flat) - 1)), vals |-> flat]
Residual(flat, idxs) ==
  LET rest == SortedSeq({i \in 0..(Len(flat) - 1) : \A j \in 1..Len(idxs) : idxs[j] # i})
  IN  [none |-> FALSE, idx |-> rest, vals |-> [j \in 1..Len(rest) |-> flat[rest[j] + 1]]]

\* line 82
EmptyResidual == [none |-> FALSE, idx |-> <<>>, vals |-> <<>>]

\* line 136-140: decompress_from_sparse, each element the fraction
\* values_int * scale in quanta
decompress_from_sparse(indices, values_int, size, scale) == [i \in 1..size |-> IF \E j \in 1..Len(indices) : indices[j] = i - 1 THEN <<values_int[CHOOSE j \in 1..Len(indices) : indices[j] = i - 1] * scale[1], scale[2]>> ELSE <<0, 1>>]

\* line 99-121: the return value and the new residual, given the selection
Quantized(flat, idxs, scale, max_int, cast) == [flat |-> flat, indices |-> idxs, values |-> Quantize(flat, idxs, scale, max_int, cast), scale |-> scale, residual |-> Residual(flat, idxs)]
Selected(flat, idxs, max_int, unit, cast) == The({Quantized(flat, idxs, scale, max_int, cast) : scale \in {ScaleOf(MaxAbs(flat, idxs, unit), max_int, unit)}})

\* line 81-83
ShortCircuit(flat, unit) == [flat |-> flat, indices |-> <<>>, values |-> <<>>, scale |-> <<One(unit), 1>>, residual |-> EmptyResidual]

\* line 74-121, flat being the input plus the residual
compress_flat(d, flat, cast) == IF AllZero(flat) THEN ShortCircuit(flat, d.unit) ELSE The({Selected(flat, idxs, d.max_int, d.unit, cast) : idxs \in {SelectTopK(flat, k) : k \in {KeepCount(Len(flat), d.tau, d.min_nonzeros)}}})

\* line 50-121
compress_and_quantize(d, raw, cast) == The({compress_flat(d, flat, cast) : flat \in {AddResidual(raw, d.residual_sparse)}})

\* ------------------------------------------------ the compressor's inputs
ConstVec(n, v) == [i \in 1..n |-> v]
Ramp(n, sign) == [i \in 1..n |-> sign * i]
DgcInputs == {ConstVec(DgcDim, 0), ConstVec(DgcDim, 1), Ramp(DgcDim, 1), Ramp(DgcDim, -1), UnitVec(DgcDim, 1, 2), UnitVec(DgcDim, DgcDim, -1)}
\* tau: 0, 1/2, 7/8 and 1/64, each a float of at most FloatBits bits
TauChoices == {<<0, 1>>, <<1, 2>>, <<7, 8>>, <<1, 64>>}
MaxIntChoices == {1, 3}
MinNonzerosChoices == {1, 2}

\* line 33-44: DGC(tau, max_int, min_nonzeros)
NewDgc(tau, max_int, min_nonzeros, unit) == [tau |-> tau, max_int |-> max_int, min_nonzeros |-> min_nonzeros, unit |-> unit, residual_sparse |-> NoneResidual, calls |-> 0]

InitDgc ==
  /\ PipelineIdle
  /\ LaterIdle
  /\ \E tau \in TauChoices, max_int \in MaxIntChoices, min_nonzeros \in MinNonzerosChoices, unit \in FloatUnits : dgc = NewDgc(tau, max_int, min_nonzeros, unit)
  /\ dgcCall = NoDgcCall
  /\ leafCall = NoLeafCall
  /\ resultP = NoResultC
  /\ workers = NoWorkers

\* The record of one call: its input, the residual it found, the vector it
\* selected from, the return value, and the caller's decompress_from_sparse
\* of that return value.
CallRecord(raw, prev, out) == [kind |-> "returned", raw |-> raw, prev |-> prev, flat |-> out.flat, indices |-> out.indices, values |-> out.values, scale |-> out.scale, dense |-> decompress_from_sparse(out.indices, out.values, Len(raw), out.scale)]

Compressed(raw, out, calls) ==
  /\ dgc' = [dgc EXCEPT !.residual_sparse = out.residual, !.calls = calls]
  /\ dgcCall' = CallRecord(raw, dgc.residual_sparse, out)
  /\ UNCHANGED <<pipeline, later, leafCall, resultP, workers>>

CompressAndQuantize(raw, cast) ==
  /\ dgc.calls < MaxCalls
  /\ \E out \in {compress_and_quantize(dgc, raw, cast)} : Compressed(raw, out, dgc.calls + 1)

NextDgc == \E raw \in DgcInputs, cast \in CastChoices : CompressAndQuantize(raw, cast)

SpecDgc == InitDgc /\ [][NextDgc]_vars

\* One compressor fed the same gradient every round (the miner's training
\* loop calls compress_and_quantize once per round, without end).
PendingCall(raw) == [kind |-> "pending", raw |-> raw, prev |-> NoneResidual, flat |-> raw, indices |-> <<>>, values |-> <<>>, scale |-> <<1, 1>>, dense |-> <<>>]

InitDgcRepeat ==
  /\ PipelineIdle
  /\ LaterIdle
  /\ \E tau \in TauChoices, max_int \in MaxIntChoices, min_nonzeros \in MinNonzerosChoices, unit \in FloatUnits : dgc = NewDgc(tau, max_int, min_nonzeros, unit)
  /\ \E raw \in DgcInputs : dgcCall = PendingCall(raw)
  /\ leafCall = NoLeafCall
  /\ resultP = NoResultC
  /\ workers = NoWorkers

CompressSame(cast) == \E out \in {compress_and_quantize(dgc, dgcCall.raw, cast)} : Compressed(dgcCall.raw, out, 0)

NextDgcRepeat == \E cast \in CastChoices : CompressSame(cast)

SpecDgcRepeat == InitDgcRepeat /\ [][NextDgcRepeat]_vars /\ WF_vars(NextDgcRepeat)

\* ----------------------------------- crypto/dgc.py: pack_leaf, unpack_leaf
\* A byte string is a sequence of bytes with the layout's true field
\* widths; a byte is scaled from 8 bits to 1, so that an 8-byte unsigned
\* index ranges over [0, 2^8) and np.int64 over [-2^7, 2^7).
ByteBase == 2
AddrLen == 20      \* miner_address
CountLen == 4      \* ">I"
WordLen == 8       \* ">Q", ">q" and np.int64
NonceLenLen == 2   \* ">H"
MaxEntries == 2    \* (index, value) pairs in a leaf

Unsigned(w) == ByteBase^w

\* struct.pack, big-endian, of x in [0, ByteBase^w); a signed x is packed
\* in two's complement
BigEndian(x, w) == [i \in 1..w |-> (x \div ByteBase^(w - i)) % ByteBase]
TwosComplement(x, w) == IF x < 0 THEN x + Unsigned(w) ELSE x

\* struct.unpack_from of an unsigned and of a signed field
RECURSIVE FromBigEndian(_)
FromBigEndian(b) == IF b = <<>> THEN 0 ELSE FromBigEndian(SubSeq(b, 1, Len(b) - 1)) * ByteBase + b[Len(b)]
ToSigned(u, w) == IF 2 * u >= Unsigned(w) THEN u - Unsigned(w) ELSE u

\* raw[a:b]: a slice is cut short at the end of the string, without error
Slice(raw, a, b) == SubSeq(raw, a + 1, Min2(b, Len(raw)))

StructError == [kind |-> "struct.error"]
OverflowError == [kind |-> "OverflowError"]

\* line 173-176: the packed (index, value) pairs from pair j on
RECURSIVE PackEntries(_, _, _)
PackEntries(indices, values_int, j) == IF j > Min2(Len(indices), Len(values_int)) THEN <<>> ELSE BigEndian(indices[j], WordLen) \o BigEndian(TwosComplement(values_int[j], WordLen), WordLen) \o PackEntries(indices, values_int, j + 1)

\* struct.pack raises struct.error for a number outside its format's range
Packable(indices, values_int, nb) ==
  /\ Len(indices) < Unsigned(CountLen)
  /\ \A j \in 1..Min2(Len(indices), Len(values_int)) : indices[j] >= 0 /\ indices[j] < Unsigned(WordLen) /\ 2 * values_int[j] >= -Unsigned(WordLen) /\ 2 * values_int[j] < Unsigned(WordLen)
  /\ nb < Unsigned(NonceLenLen)

\* line 156-181: pack_leaf; the address is its 20 bytes and the nonce its
\* UTF-8 bytes
pack_leaf(addr_bytes, indices, values_int, nonce_b) == IF ~Packable(indices, values_int, Len(nonce_b)) THEN StructError ELSE [kind |-> "bytes", raw |-> addr_bytes \o BigEndian(Len(indices), CountLen) \o PackEntries(indices, values_int, 1) \o BigEndian(Len(nonce_b), NonceLenLen) \o nonce_b]

\* line 195-199: entry j of the loop, read at offset 24 + 16 * (j - 1)
EntryOffset(j) == AddrLen + CountLen + 2 * WordLen * (j - 1)
IndexAt(raw, j) == FromBigEndian(Slice(raw, EntryOffset(j), EntryOffset(j) + WordLen))
ValueAtEntry(raw, j) == ToSigned(FromBigEndian(Slice(raw, EntryOffset(j) + WordLen, EntryOffset(j) + 2 * WordLen)), WordLen)

\* line 206: np.array(indices, dtype=np.int64) raises OverflowError for an
\* index that np.int64 cannot hold
Int64Holds(idx) == 2 * idx < Unsigned(WordLen)

\* line 200-206: after the entries, with offset at the nonce length
unpack_nonce(raw, count, offset) ==
  IF Len(raw) - offset < NonceLenLen THEN StructError
  ELSE IF \E j \in 1..count : ~Int64Holds(IndexAt(raw, j)) THEN OverflowError
  ELSE [kind |-> "returned", addr |-> Slice(raw, 0, AddrLen), indices |-> [j \in 1..count |-> IndexAt(raw, j)], values |-> [j \in 1..count |-> ValueAtEntry(raw, j)],
        nonce |-> Slice(raw, offset + NonceLenLen, offset + NonceLenLen + FromBigEndian(Slice(raw, offset, offset + NonceLenLen)))]

\* line 192-199: struct.unpack_from raises struct.error when fewer bytes
\* than the field's width remain at the offset
unpack_entries(raw, count) == IF Len(raw) < EntryOffset(count + 1) THEN StructError ELSE unpack_nonce(raw, count, EntryOffset(count + 1))

\* line 184-206: unpack_leaf
unpack_leaf(raw) == IF Len(raw) - AddrLen < CountLen THEN StructError ELSE unpack_entries(raw, FromBigEndian(Slice(raw, AddrLen, AddrLen + CountLen)))

\* ------------------------------------------------------ the codec's inputs
AddrChoices == {[i \in 1..AddrLen |-> i % 2], [i \in 1..AddrLen |-> IF i = 1 THEN 1 ELSE 0]}
EntryChoices == {<<0, 0>>, <<127, -128>>, <<128, 127>>, <<255, -1>>}
EntrySeqs == UNION {[1..n -> EntryChoices] : n \in 0..MaxEntries}
NonceChoices == {<<>>, <<1>>, <<0, 1, 1>>, <<1, 1, 1, 1>>}

\* the byte strings handed to unpack_leaf: a leaf, a leaf cut short
\* anywhere, and a leaf followed by one more byte
Received(raw) == {SubSeq(raw, 1, n) : n \in 0..Len(raw)} \cup {raw \o <<b>> : b \in 0..(ByteBase - 1)}
ReceivedOf(call) == IF call.kind = "packed" THEN (IF call.leaf.kind = "bytes" THEN Received(call.leaf.raw) ELSE {}) ELSE {}

InitLeaf ==
  /\ PipelineIdle
  /\ LaterIdle
  /\ dgc = NoDgc
  /\ dgcCall = NoDgcCall
  /\ leafCall = NoLeafCall
  /\ resultP = NoResultC
  /\ workers = NoWorkers

Packed(addr, entries, nonce_b, out) ==
  /\ leafCall' = [kind |-> "packed", addr |-> addr, indices |-> [j \in 1..Len(entries) |-> entries[j][1]], values |-> [j \in 1..Len(entries) |-> entries[j][2]], nonce |-> nonce_b, leaf |-> out, raw |-> <<>>, out |-> StructError]
  /\ UNCHANGED <<pipeline, later, dgc, dgcCall, resultP, workers>>

PackLeaf(addr, entries, nonce_b) ==
  /\ leafCall.kind = "none"
  /\ \E out \in {pack_leaf(addr, [j \in 1..Len(entries) |-> entries[j][1]], [j \in 1..Len(entries) |-> entries[j][2]], nonce_b)} : Packed(addr, entries, nonce_b, out)

UnpackLeaf(raw) ==
  /\ leafCall.kind = "packed"
  /\ leafCall' = [leafCall EXCEPT !.kind = "unpacked", !.raw = raw, !.out = unpack_leaf(raw)]
  /\ UNCHANGED <<pipeline, later, dgc, dgcCall, resultP, workers>>

NextLeaf ==
  \/ \E addr \in AddrChoices, entries \in EntrySeqs, nonce_b \in NonceChoices : PackLeaf(addr, entries, nonce_b)
  \/ \E raw \in ReceivedOf(leafCall) : UnpackLeaf(raw)

SpecLeaf == InitLeaf /\ [][NextLeaf]_vars

\* ---------------------- ndd_fe.py: decrypt_aggregate_chunked(parallel=True)
\* line 361-364: ex.map pickles the callable to send it to a worker
\* process.  The callable is a lambda closing over the nested function
\* solve_chunk, which pickle cannot serialise: the first submitted chunk
\* fails with a pickling error, which ex.map re-raises in the caller before
\* any vec is assigned.  Without chunks nothing is submitted.
Picklable(callable) == callable \notin {"lambda", "nested function"}
PicklingError(chunk) == [kind |-> "PicklingError", vec |-> <<>>, start |-> chunk[1], end |-> chunk[2], log |-> <<>>]
executor_map(callable, chunks, L) == IF chunks = <<>> THEN [kind |-> "ok", vec |-> [k \in 1..L |-> 0], start |-> 0, end |-> 0, log |-> <<>>] ELSE IF ~Picklable(callable) THEN PicklingError(chunks[1]) ELSE [kind |-> "submitted", vec |-> <<>>, start |-> 0, end |-> 0, log |-> <<>>]

\* line 358-364 with parallel = True
decrypt_aggregate_chunked_parallel(ciphertexts_U, chunk_size) == executor_map("lambda", Chunks(Len(ciphertexts_U[1]), chunk_size), Len(ciphertexts_U[1]))

ReturnedParallel(r, chunk_size, cap) == resultP' = [kind |-> r.kind, vec |-> r.vec, start |-> r.start, end |-> r.end, log |-> r.log, chunk_size |-> chunk_size, cap |-> cap]

\* The worker processes hold their own _BABY_CACHE; the caller's is not
\* touched.
DecryptAggregateChunkedParallel(chunk_size, cap) ==
  /\ Ready
  /\ resultP.kind = "none"
  /\ ReturnedParallel(decrypt_aggregate_chunked_parallel(cts, chunk_size), chunk_size, cap)
  /\ UNCHANGED <<pipeline, later, dgc, dgcCall, leafCall, workers>>

NextParallel ==
  \/ KeyDerive
  \/ \E i \in Miners : Encrypt(i)
  \/ \E cs \in ChunkSizes, cap \in CapChoices : DecryptAggregateChunked(cs, cap)
  \/ \E cs \in ChunkSizes, cap \in CapChoices : DecryptAggregateChunkedParallel(cs, cap)

SpecParallel == Init /\ [][NextParallel]_vars

\* --------------------------- ndd_fe.py: concurrent callers of bsgs_cached
\* Several threads of one process call bsgs_cached and share _BABY_CACHE.
\* A step is one dictionary operation or one loop iteration (each is atomic
\* under the interpreter lock); the steps of different callers interleave
\* freely.  Each caller's m, baby and j are locals of its own
\* _precompute_babysteps frame.
NumWorkers == 2
Workers == 1..NumWorkers
CacheBounds == {1, 5, 8, MinBound}
CacheScalars == {0, 4}

IdleWorker == [pc |-> "idle", s |-> 0, bound |-> 0, m |-> 0, baby |-> <<>>, j |-> 0, built |-> FALSE, val |-> 0]

InitCache ==
  /\ PipelineIdle
  /\ LaterIdle
  /\ dgc = NoDgc
  /\ dgcCall = NoDgcCall
  /\ leafCall = NoLeafCall
  /\ resultP = NoResultC
  /\ workers = [w \in Workers |-> IdleWorker]

\* line 143-144: baby[_point_key(j * G)] = j
BabyInsertShifted(baby, j) == (_point_key(PointMul(G, j + 1)) :> j) @@ baby
BabyInsert(baby, j) == (_point_key(PointMul(G, j)) :> j) @@ baby

\* line 158-159 and 133-139: the identity returns 0 at once; otherwise m is
\* computed and looked up, and on a miss a fresh local table is started
Entered(w, s, bound, m) ==
  workers' = [workers EXCEPT ![w] =
    IF IsIdentity(PointMul(G, s)) THEN [IdleWorker EXCEPT !.pc = "done", !.s = s, !.bound = bound]
    ELSE IF m \in DOMAIN BABY_CACHE THEN [IdleWorker EXCEPT !.pc = "search", !.s = s, !.bound = bound, !.m = m, !.baby = BABY_CACHE[m]]
    ELSE [IdleWorker EXCEPT !.pc = "build", !.s = s, !.bound = bound, !.m = m, !.baby = KeyNone :> 0, !.j = 1]]

CallBsgs(w, s, bound) ==
  /\ workers[w].pc = "idle"
  /\ Entered(w, s, bound, CeilSqrt(bound))
  /\ UNCHANGED <<pipeline, later, dgc, dgcCall, leafCall, resultP>>

\* line 142-144: one iteration of for j in range(1, m)
BuildStep(w) ==
  /\ workers[w].pc = "build"
  /\ workers[w].j < workers[w].m
  /\ workers' = [workers EXCEPT ![w].baby = BabyInsert(workers[w].baby, workers[w].j), ![w].j = workers[w].j + 1]
  /\ UNCHANGED <<pipeline, later, dgc, dgcCall, leafCall, resultP>>

\* line 146-147: _BABY_CACHE[m] = baby after the loop
Publish(w) ==
  /\ workers[w].pc = "build"
  /\ workers[w].j >= workers[w].m
  /\ BABY_CACHE' = (workers[w].m :> workers[w].baby) @@ BABY_CACHE
  /\ workers' = [workers EXCEPT ![w].pc = "search", ![w].built = TRUE]
  /\ UNCHANGED <<sk_A, sk_TP, sk_miners, ctr, ctr_TP, task_id, weights_y, scale_weights, updates, updates_alt, cts, cts_alt, r_miner, r_TP, sk_FE, result, resultC, bsgsCall, dgc, dgcCall, leafCall, resultP, later>>

\* line 161-192: the giant steps over the caller's table
Search(w) ==
  /\ workers[w].pc = "search"
  /\ workers' = [workers EXCEPT ![w].pc = "done", ![w].val = bsgs_loop(PointMul(G, workers[w].s), workers[w].bound, workers[w].baby, workers[w].m, PointMul(G, (-workers[w].m) % N), 0, PointMul(G, workers[w].s))]
  /\ UNCHANGED <<pipeline, later, dgc, dgcCall, leafCall, resultP>>

\* the call returns and the thread is free for its next call
Finish(w) ==
  /\ workers[w].pc = "done"
  /\ workers' = [workers EXCEPT ![w] = IdleWorker]
  /\ UNCHANGED <<pipeline, later, dgc, dgcCall, leafCall, resultP>>

NextCache ==
  \/ \E w \in Workers, s \in CacheScalars, bound \in CacheBounds : CallBsgs(w, s, bound)
  \/ \E w \in Workers : BuildStep(w)
  \/ \E w \in Workers : Publish(w)
  \/ \E w \in Workers : Search(w)
  \/ \E w \in Workers : Finish(w)

SpecCache == InitCache /\ [][NextCache]_vars

\* ------------- aggregator.py: Aggregator.secure_aggregate_and_evaluate
\* One Aggregator object and the calls made on it, one after the other.  A
\* call is followed through its positions: the one-shot decrypt with the
\* exact bound and its chunked fallback (when the plaintext updates are
\* passed), the geometric retry loop, and the decision.  What
\* decrypt_aggregate answers to one call is the environment's: the vector,
\* the BSGS-bound ValueError, or another exception.  The bounds of the
\* retry loop are scaled by 2^-18 (2^24, 2^30, 2^34 become 2^6, 2^12,
\* 2^16), max_int 1023 becomes 3 and the weight scale 1000 becomes 10.
MaxAggCalls == 4        \* calls on one aggregator
RetryFloor == 64        \* 1 << 24
RetryStartCap == 4096   \* 1 << 30
MaxBoundCap == 65536    \* max_bound_cap = 1 << 34
GrowthFactor == 4
AggMaxInt == 3          \* _DGC().max_int
AggScaleWeights == 10   \* scale_weights = 1000
MinParticipants == 2

MaxRoundsChoices == {1, 2, 3}
\* weights_y: uniform 1/h, 7 each, 500 each
AggWeightChoices == {[i \in Miners |-> <<1, NumMiners>>], [i \in Miners |-> <<7, 1>>], [i \in Miners |-> <<500, 1>>]}
\* what a successful recovery returns, one integer per model parameter
RecoveredChoices == {<<0, 0>>, <<1, -2>>}
DecryptOutcomes == {"ok", "BoundError", "TypeError"}
InitialModel == <<1, 2>>
NoVector == <<>>

\* line 19-37
NewAggregator(max_rounds) == [kind |-> "aggregator", W_current |-> InitialModel, round_ctr |-> 0, sk_FE_set |-> FALSE, max_rounds |-> max_rounds, calls |-> 0, retrains |-> 0]
NoAggCall == [pc |-> "idle", status |-> "none", plain |-> FALSE, weights |-> <<>>, attempt_bound |-> 0, tried |-> <<>>, recovered |-> NoVector, W_before |-> InitialModel, ctr_before |-> 0, acc_ok |-> "none", value |-> NoVector]

BetweenCalls == aggCall.pc \in {"idle", "returned", "raised"}

\* line 262-266: the first bound of the retry loop
RECURSIVE SumAbs(_)
SumAbs(ws) == IF ws = <<>> THEN 0 ELSE Abs(Head(ws)) + SumAbs(Tail(ws))
InitialBound(weights) == Min2(Max2(RetryFloor, Max2(MinBound, SumAbs(WeightsRaw(weights, AggScaleWeights)) * AggMaxInt + Margin)), RetryStartCap)

\* line 288: the next bound of the retry loop
NextBoundUncapped(b) == b * GrowthFactor
NextBound(b) == Min2(MaxBoundCap, b * GrowthFactor)

\* line 50-63, 300-302: W_current + dgc_decompress(recovered, shape), the
\* scale being the default 1.0
PlusUpdate(W, recovered) == [k \in 1..Len(W) |-> W[k] + recovered[k]]

AggEntered(weights, plain) == [pc |-> IF plain THEN "oneshot" ELSE "retry", status |-> "none", plain |-> plain, weights |-> weights, attempt_bound |-> IF plain THEN 0 ELSE InitialBound(weights), tried |-> <<>>, recovered |-> NoVector, W_before |-> aggregator.W_current, ctr_before |-> aggregator.round_ctr, acc_ok |-> "none", value |-> NoVector]
Ended(pc, status, value) == [aggCall EXCEPT !.pc = pc, !.status = status, !.value = value]

InitAgg ==
  /\ PipelineIdle
  /\ dgc = NoDgc /\ dgcCall = NoDgcCall /\ leafCall = NoLeafCall /\ resultP = NoResultC /\ workers = NoWorkers
  /\ \E max_rounds \in MaxRoundsChoices : aggregator = NewAggregator(max_rounds)
  /\ aggCall = NoAggCall
  /\ orch = Idle /\ round = Idle /\ server = Idle

AggFrame == UNCHANGED <<pipeline, dgc, dgcCall, leafCall, resultP, workers, orch, round, server>>

\* line 44-47
SetFunctionalKey ==
  /\ BetweenCalls
  /\ ~aggregator.sk_FE_set
  /\ aggregator' = [aggregator EXCEPT !.sk_FE_set = TRUE]
  /\ UNCHANGED aggCall
  /\ AggFrame

\* line 87-97 and 135-137: the key check, the round counter, the count of
\* valid submissions; then the one-shot decrypt or the retry loop
AggCallEnters(valid, weights, plain) ==
  /\ BetweenCalls
  /\ aggregator.calls < MaxAggCalls
  /\ IF ~aggregator.sk_FE_set
     THEN /\ aggregator' = [aggregator EXCEPT !.calls = @ + 1]
          /\ aggCall' = [AggEntered(weights, plain) EXCEPT !.pc = "raised", !.status = "ValueError: Functional key (sk_FE) not set"]
     ELSE /\ aggregator' = [aggregator EXCEPT !.calls = @ + 1, !.round_ctr = @ + 1]
          /\ aggCall' = IF valid < MinParticipants
                        THEN [AggEntered(weights, plain) EXCEPT !.pc = "returned", !.status = "FAIL_INSUFFICIENT_MINERS", !.value = aggregator.W_current]
                        ELSE AggEntered(weights, plain)
  /\ AggFrame

\* line 137-157, 256-257: decrypt_aggregate with the exact bound
OneShot(outcome, vec) ==
  /\ aggCall.pc = "oneshot"
  /\ aggCall' = IF outcome = "ok" THEN [aggCall EXCEPT !.pc = "finish", !.recovered = vec]
                ELSE IF outcome = "BoundError" THEN [aggCall EXCEPT !.pc = "chunked"]
                ELSE [aggCall EXCEPT !.pc = "retry", !.attempt_bound = InitialBound(aggCall.weights)]
  /\ UNCHANGED aggregator
  /\ AggFrame

\* line 237-255: the chunked fallback, every exception of which is caught
ChunkedFallback(outcome, vec) ==
  /\ aggCall.pc = "chunked"
  /\ aggCall' = IF outcome = "ok" THEN [aggCall EXCEPT !.pc = "finish", !.recovered = vec]
                ELSE [aggCall EXCEPT !.pc = "retry", !.attempt_bound = InitialBound(aggCall.weights)]
  /\ UNCHANGED aggregator
  /\ AggFrame

\* line 269-294: one iteration of the retry loop
Retried(outcome, vec, next_bound) ==
  IF aggCall.attempt_bound > MaxBoundCap THEN [aggCall EXCEPT !.pc = "finish"]
  ELSE IF outcome = "ok" THEN [aggCall EXCEPT !.pc = "finish", !.recovered = vec, !.tried = Append(@, <<aggCall.attempt_bound, outcome>>)]
  ELSE IF outcome = "BoundError"
  THEN IF next_bound <= aggCall.attempt_bound
       THEN [aggCall EXCEPT !.pc = "finish", !.tried = Append(@, <<aggCall.attempt_bound, outcome>>)]
       ELSE [aggCall EXCEPT !.attempt_bound = next_bound, !.tried = Append(@, <<aggCall.attempt_bound, outcome>>)]
  ELSE [aggCall EXCEPT !.pc = "raised", !.status = outcome, !.tried = Append(@, <<aggCall.attempt_bound, outcome>>)]

RetryAttempt(outcome, vec) ==
  /\ aggCall.pc = "retry"
  /\ aggCall' = Retried(outcome, vec, NextBound(aggCall.attempt_bound))
  /\ UNCHANGED aggregator
  /\ AggFrame

MayRetrainOneMore(a) == a.round_ctr <= a.max_rounds
\* line 313: the round counter against max_rounds
MayRetrain(a) == a.round_ctr < a.max_rounds

\* line 313-316, the faulty variant storing the new model on every path
DecideAlwaysStore(W_new, acc_ok) == [W_current |-> W_new, status |-> IF acc_ok THEN "AWAITING_VERIFICATION" ELSE IF MayRetrain(aggregator) THEN "RETRAIN" ELSE "FAILED_MAX_ROUNDS", value |-> W_new]
\* line 308-319: the decision, acc_ok being acc_calc >= acc_req
Decide(W_new, acc_ok) == IF acc_ok THEN [W_current |-> aggregator.W_current, status |-> "AWAITING_VERIFICATION", value |-> W_new] ELSE IF MayRetrain(aggregator) THEN [W_current |-> W_new, status |-> "RETRAIN", value |-> W_new] ELSE [W_current |-> aggregator.W_current, status |-> "FAILED_MAX_ROUNDS", value |-> aggregator.W_current]

Decided(d, acc_ok) ==
  /\ aggregator' = [aggregator EXCEPT !.W_current = d.W_current, !.retrains = IF d.status = "RETRAIN" THEN @ + 1 ELSE @]
  /\ aggCall' = [Ended("returned", d.status, d.value) EXCEPT !.acc_ok = IF acc_ok THEN "met" ELSE "missed"]

\* line 296-319
AggFinish(acc_ok) ==
  /\ aggCall.pc = "finish"
  /\ IF aggCall.recovered = NoVector
     THEN /\ aggCall' = Ended("raised", "ValueError: Failed to recover aggregate vector", NoVector)
          /\ UNCHANGED aggregator
     ELSE Decided(Decide(PlusUpdate(aggregator.W_current, aggCall.recovered), acc_ok), acc_ok)
  /\ AggFrame

NextAgg ==
  \/ SetFunctionalKey
  \/ \E valid \in 1..NumMiners, weights \in AggWeightChoices, plain \in BOOLEAN : AggCallEnters(valid, weights, plain)
  \/ \E outcome \in DecryptOutcomes, vec \in RecoveredChoices : OneShot(outcome, vec)
  \/ \E outcome \in DecryptOutcomes, vec \in RecoveredChoices : ChunkedFallback(outcome, vec)
  \/ \E outcome \in DecryptOutcomes, vec \in RecoveredChoices : RetryAttempt(outcome, vec)
  \/ \E acc_ok \in BOOLEAN : AggFinish(acc_ok)

\* A call that has been entered runs to its end: nothing in the method
\* waits.
SpecAgg == InitAgg /\ [][NextAgg]_vars /\ WF_vars(\E outcome \in DecryptOutcomes, vec \in RecoveredChoices : RetryAttempt(outcome, vec)) /\ WF_vars(\E outcome \in DecryptOutcomes, vec \in RecoveredChoices : OneShot(outcome, vec)) /\ WF_vars(\E outcome \in DecryptOutcomes, vec \in RecoveredChoices : ChunkedFallback(outcome, vec)) /\ WF_vars(\E acc_ok \in BOOLEAN : AggFinish(acc_ok))


\* ------------------------------- sim_server.py: the simulation threads
\* The Flask application serves every request on a thread of its own
\* (threaded=True).  A handler is followed through its two steps, the
\* test of STATE['status'] and the start of the background thread; a
\* background thread through its own: started, STATE['status'] set to
\* 'running', ended.
NumRequests == 3
Requests == 1..NumRequests
Endpoints == {"run-simulation", "select-participants"}
AcceptingSelections == {"open", "receiving_applicants", "awaiting_selection"}
NoRequest == [endpoint |-> "none", pc |-> "none", during |-> FALSE]
NewServer == [kind |-> "server", status |-> "idle", requests |-> [r \in Requests |-> NoRequest], threads |-> <<>>]

\* the background threads that have been started and have not ended
ActiveThreads == {t \in DOMAIN server.threads : server.threads[t].pc # "ended"}

InitServer ==
  /\ PipelineIdle
  /\ dgc = NoDgc /\ dgcCall = NoDgcCall /\ leafCall = NoLeafCall /\ resultP = NoResultC /\ workers = NoWorkers
  /\ aggregator = Idle /\ aggCall = Idle /\ orch = Idle /\ round = Idle
  /\ server = NewServer

ServerFrame == UNCHANGED <<pipeline, dgc, dgcCall, leafCall, resultP, workers, aggregator, aggCall, orch, round>>

\* line 279-281 and 485-486: the test a handler makes before it starts a
\* thread
Refuses(endpoint, status) == IF endpoint = "run-simulation" THEN status = "running" ELSE status \notin AcceptingSelections

\* line 271-281, 475-486: a request arrives and its handler tests the
\* status
HandlerTests(r, endpoint) ==
  /\ server.requests[r].pc = "none"
  /\ server' = [server EXCEPT !.requests[r] = [endpoint |-> endpoint, pc |-> IF Refuses(endpoint, server.status) THEN "409" ELSE "passed", during |-> ActiveThreads # {}]]
  /\ ServerFrame

\* line 293-297, 494-497: threading.Thread(...).start() and the 202 reply
HandlerStartsThread(r) ==
  /\ server.requests[r].pc = "passed"
  /\ server' = [server EXCEPT !.requests[r].pc = "202", !.threads = Append(@, [target |-> server.requests[r].endpoint, pc |-> "started"])]
  /\ ServerFrame

\* line 137, 511: the thread's first statement
ThreadSetsRunning(t) ==
  /\ t \in DOMAIN server.threads
  /\ server.threads[t].pc = "started"
  /\ server' = [server EXCEPT !.status = "running", !.threads[t].pc = "running"]
  /\ ServerFrame

\* line 231-239, 256-268 for _run_simulation_thread; line 521-524,
\* 570-618 for _continue_simulation_thread
ThreadEnds(t, status) ==
  /\ t \in DOMAIN server.threads
  /\ server.threads[t].pc = "running"
  /\ status \in (IF server.threads[t].target = "run-simulation" THEN {"open", "failed"} ELSE {"completed", "failed"})
  /\ server' = [server EXCEPT !.status = status, !.threads[t].pc = "ended"]
  /\ ServerFrame

\* line 469-471: miner_submit
MinerSubmit ==
  /\ server.status = "open"
  /\ server' = [server EXCEPT !.status = "receiving_applicants"]
  /\ ServerFrame

NextServer ==
  \/ \E r \in Requests, endpoint \in Endpoints : HandlerTests(r, endpoint)
  \/ \E r \in Requests : HandlerStartsThread(r)
  \/ \E t \in 1..NumRequests : ThreadSetsRunning(t)
  \/ \E t \in 1..NumRequests, status \in {"open", "completed", "failed"} : ThreadEnds(t, status)
  \/ MinerSubmit

SpecServer == InitServer /\ [][NextServer]_vars


\* ------ simulation_runner.py, sim_server.py: the orchestrated rounds
\* One task from TaskPublisher.setup_round to the end of the training
\* loop, in run_healchain_simulation ("runner") and in the server's
\* _continue_simulation_thread ("server").  A round is the miners'
\* run_training_round calls followed by one call of
\* Aggregator.secure_aggregate_and_evaluate, taken as one step each.
\* The class NDD_FE that TaskPublisher imports is not part of the tree:
\* setup_round hands it no weight scale, so the scale of the derived key
\* is the default of ndd_fe.key_derive or the aggregator's own scale.
\* The runner reads a fourth value from setup_round, the addresses of the
\* miners that passed the proof check; it is `addresses` of line 263.
MaxOrchRounds == 3
OrchSkA == 2
OrchSkTP == 3
OrchSkMiner(i) == 10 + i
OrchTaskId == <<1, 0>>
SetupRoundCtr == 0      \* sk_FE_ctr = 0, round_ctr=0
KeyDeriveDefaultScale == 1
KeyScaleChoices == {KeyDeriveDefaultScale, AggScaleWeights}
Orchestrators == {"runner", "server"}
OrchMaxRounds == {2, 3}
\* which miner responses carry a proof that verifies
ProofChoices == {[i \in Miners |-> TRUE], [i \in Miners |-> i # 2]}
\* the quantized updates of one round, per miner
RoundUpdates == {[i \in Miners |-> <<i, -1>>], [i \in Miners |-> <<0, 1>>], [i \in Miners |-> <<-i, 2>>]}
\* positions of the submissions whose ciphertext is None
LostChoices == {{}, {1}}

RECURSIVE Kept(_, _)
Kept(s, keep) == IF s = <<>> THEN <<>> ELSE (IF Head(s) \in keep THEN <<Head(s)>> ELSE <<>>) \o Kept(Tail(s), keep)
AllMiners == [i \in Miners |-> i]
Positions1(s) == [j \in 1..Len(s) |-> j]

NoRoundKey == [kind |-> "key", serial |-> 0, ctr |-> 0, task_id |-> <<>>, miners |-> <<>>, weights |-> <<>>, scale |-> 0, sk_FE |-> 0]
NewOrch(which, proofs) == [kind |-> which, pc |-> "setup", proofs |-> proofs, participants |-> <<>>, weights_y |-> <<>>, status |-> "RETRAIN", enc_ctr |-> 0, submissions |-> <<>>, history |-> <<>>]

InitOrch ==
  /\ PipelineIdle
  /\ dgc = NoDgc /\ dgcCall = NoDgcCall /\ leafCall = NoLeafCall /\ resultP = NoResultC /\ workers = NoWorkers
  /\ \E max_rounds \in OrchMaxRounds : aggregator = NewAggregator(max_rounds)
  /\ aggCall = NoAggCall
  /\ \E which \in Orchestrators, proofs \in ProofChoices : orch = NewOrch(which, proofs)
  /\ round = NoRoundKey
  /\ server = Idle

OrchFrame == UNCHANGED <<pipeline, dgc, dgcCall, leafCall, resultP, workers, aggCall, server>>

\* publisher.py line 229-265: the responses whose proof verifies, in order
valid_miners(responses, proofs) == Kept(responses, {i \in Miners : proofs[i]})
\* line 314-327: weights 1/h and the functional key
setup_round(responses, proofs, round_ctr, key_scale) ==
  LET valid == valid_miners(responses, proofs)
      h == Len(valid)
      weights == [j \in 1..h |-> <<1, h>>]
  IN  [kind |-> "key", serial |-> round.serial + 1, ctr |-> round_ctr, task_id |-> OrchTaskId, miners |-> valid, weights |-> weights, scale |-> key_scale,
       sk_FE |-> key_derive(OrchSkTP, [j \in 1..h |-> PublicKey(OrchSkMiner(valid[j]))], weights, round_ctr, OrchTaskId, key_scale)]

\* simulation_runner.py line 163-175, sim_server.py line 528-536
OrchSetup(key_scale) ==
  /\ orch.pc = "setup"
  /\ \E key \in {setup_round(AllMiners, orch.proofs, SetupRoundCtr, key_scale)} :
       /\ round' = key
       /\ orch' = [orch EXCEPT !.pc = "train", !.weights_y = key.weights, !.participants = IF orch.kind = "runner" THEN key.miners ELSE AllMiners]
  /\ aggregator' = [aggregator EXCEPT !.sk_FE_set = TRUE]
  /\ OrchFrame

\* simulation_runner.py line 209: sk_FE_ctr; sim_server.py line 553:
\* aggregator.round_ctr
EncryptCtr(which) == IF which = "runner" THEN SetupRoundCtr ELSE aggregator.round_ctr

\* simulation_runner.py line 199-210, sim_server.py line 549-555
OrchTrain(upds) ==
  /\ orch.pc = "train"
  /\ orch.status = "RETRAIN"
  /\ Len(orch.history) < MaxOrchRounds
  /\ \E c \in {EncryptCtr(orch.kind)} :
       orch' = [orch EXCEPT !.pc = "aggregate", !.enc_ctr = c,
                            !.submissions = [j \in 1..Len(orch.participants) |->
                               [miner |-> orch.participants[j], x |-> upds[orch.participants[j]],
                                U |-> encrypt_integer_vector(OrchSkMiner(orch.participants[j]), PublicKey(OrchSkTP), PublicKey(OrchSkA), upds[orch.participants[j]], c, OrchTaskId)]]]
  /\ UNCHANGED <<aggregator, round>>
  /\ OrchFrame

\* aggregator.py line 93-150: the mask is removed at every parameter
MaskRemoved(valid, weights) ==
  LET U == [j \in 1..Len(valid) |-> valid[j].U]
      x == [j \in 1..Len(valid) |-> valid[j].x]
      wmods == WeightsMod(weights, AggScaleWeights)
  IN  \A k \in 1..Len(x[1]) : SameElement(EStar(round.sk_FE, OrchSkA, PublicKey(OrchSkTP), U, wmods, k), PointMul(G, ModSum(wmods, x, k)))

RoundRecord(valid, status, exact) == [enc_ctr |-> orch.enc_ctr, enc_task_id |-> OrchTaskId, key |-> round, combined |-> [j \in 1..Len(valid) |-> valid[j].miner], weights |-> orch.weights_y, scale |-> AggScaleWeights, status |-> status, exact |-> exact]

\* aggregator.py line 87-97 and 300-319, within the loops of
\* simulation_runner.py line 231-248 and sim_server.py line 557-569
OrchAggregate(lost, acc_ok) ==
  /\ orch.pc = "aggregate"
  /\ \E valid \in {Kept(Positions1(orch.submissions), DOMAIN orch.submissions \ lost)} :
     \E subs \in {[j \in 1..Len(valid) |-> orch.submissions[valid[j]]]} :
       IF Len(subs) < MinParticipants
       THEN /\ orch' = [orch EXCEPT !.pc = "done", !.status = "FAIL_INSUFFICIENT_MINERS", !.submissions = <<>>, !.history = Append(@, RoundRecord(subs, "FAIL_INSUFFICIENT_MINERS", FALSE))]
            /\ aggregator' = [aggregator EXCEPT !.round_ctr = @ + 1, !.calls = @ + 1]
       ELSE \E exact \in {MaskRemoved(subs, orch.weights_y)} :
            \E after \in {[aggregator EXCEPT !.round_ctr = @ + 1, !.calls = @ + 1]} :
            \E status \in {IF ~exact THEN "raised" ELSE IF acc_ok THEN "AWAITING_VERIFICATION" ELSE IF MayRetrain(after) THEN "RETRAIN" ELSE "FAILED_MAX_ROUNDS"} :
              /\ orch' = [orch EXCEPT !.pc = IF status = "RETRAIN" THEN "train" ELSE "done", !.status = status, !.submissions = <<>>, !.history = Append(@, RoundRecord(subs, status, exact))]
              /\ aggregator' = [after EXCEPT !.retrains = IF status = "RETRAIN" THEN @ + 1 ELSE @]
  /\ UNCHANGED round
  /\ OrchFrame

NextOrch ==
  \/ \E key_scale \in KeyScaleChoices : OrchSetup(key_scale)
  \/ \E upds \in RoundUpdates : OrchTrain(upds)
  \/ \E lost \in LostChoices, acc_ok \in BOOLEAN : OrchAggregate(lost, acc_ok)

SpecOrch == InitOrch /\ [][NextOrch]_vars

\* -------------------------------------------------------------- properties
\* The parties agree on the round context (keys and weights always agree:
\* every party reads the same sk, pk, weights_y and scale_weights).
Consistent == ctr = ctr_TP

Params == 1..Len(updates[1])
w_raw == WeightsRaw(weights_y, scale_weights)
w_mod == WeightsMod(weights_y, scale_weights)

\* S_k: the exact signed weighted sum at parameter k
TrueSum(k) == SignedSum(w_raw, updates, k)

Called == result.kind # "none"
CalledChunked == resultC.kind # "none"
AllEncrypted == \A i \in Miners : cts[i] # <<>>

\* The discrete logarithm of a group element, whatever its representation.
Log(pt) == IF IsIdentity(pt) THEN 0 ELSE pt[2]

RECURSIVE SeqSum(_)
SeqSum(f) == IF f = <<>> THEN 0 ELSE Head(f) + SeqSum(Tail(f))
RECURSIVE SeqProd(_)
SeqProd(f) == IF f = <<>> THEN 1 ELSE Head(f) * SeqProd(Tail(f))

\* E*_k as decrypt_aggregate computes it from the state
EStarAt(k) == EStar(sk_FE, sk_A, pk_TP, cts, w_mod, k)
\* (sum of w_mod * clipped mod N) * G as a group element
ExpectedAt(k) == PointMul(G, ModSum(w_mod, updates, k))

\* Every scaled weight is y * scale itself (nothing is rounded off) and
\* at least 1.
IntegerWeights ==
  \A i \in Miners :
    /\ (weights_y[i][1] * scale_weights) % weights_y[i][2] = 0
    /\ w_raw[i] >= 1

\* ---- C1
\* Sum of y_i * x_i[k] in plain rational arithmetic, times the product of
\* the weights' denominators.
DenProd == SeqProd([i \in Miners |-> weights_y[i][2]])
PlainSumTimesDen(k) ==
  SeqSum([i \in Miners |->
            weights_y[i][1] * (DenProd \div weights_y[i][2]) * updates[i][k]])

\* C1 as stated: with weightScale = 1, consistent keys, weights and round
\* context and a bound above every sum, decrypt_aggregate returns at every
\* index exactly the sum of weight_i * update_i of plain arithmetic.
C1_StatedRoundTrip ==
  (/\ Called /\ ~result.plain /\ Consistent /\ scale_weights = 1
   /\ \A k \in Params : Abs(PlainSumTimesDen(k)) < DenProd * result.bsgs_bound)
  => /\ result.kind = "ok"
     /\ \A k \in Params : result.vec[k] * DenProd = PlainSumTimesDen(k)

\* C1 (amended): when every scaled weight w_i = round(y_i * weightScale) is
\* y_i * weightScale itself and at least 1, decrypt_aggregate without the
\* plaintext argument, on the miners' encrypt_integer_vector outputs and
\* the sk_FE of key_derive over the same keys, weights, weightScale and
\* round context, with a bound above every |S_k| and |S_k| < n/2, returns
\* at every index k exactly S_k = sum of w_i * update_i[k].
C1_RoundTrip ==
  (/\ Called /\ ~result.plain /\ Consistent /\ IntegerWeights
   /\ \A k \in Params : Abs(TrueSum(k)) < result.bsgs_bound /\ Abs(TrueSum(k)) < N \div 2)
  => /\ result.kind = "ok"
     /\ Len(result.vec) = Len(updates[1])
     /\ \A k \in Params : result.vec[k] = TrueSum(k)

\* A call recovered a vector with a positive and a negative sum.
C1_Witness ==
  /\ Called /\ ~result.plain /\ Consistent /\ IntegerWeights
  /\ result.kind = "ok"
  /\ \E j, k \in Params : result.vec[j] > 0 /\ result.vec[k] < 0
  /\ \A k \in Params : Abs(TrueSum(k)) < result.bsgs_bound

\* ---- C2
\* What the aggregator gets from one miner's ciphertexts at two indices:
\* the discrete logarithm of (U[j] - U[k]) * sk_A^-1.
PairView(U, j, k) == ((Log(U[j]) - Log(U[k])) * ModInv(sk_A)) % N

\* C2: two executions with the same keys, weights and round context whose
\* weighted sums agree at every index give the aggregator the same value
\* (U_i[j] - U_i[k]) * sk_A^-1 for every miner i and indices j, k.
C2_OnlyWeightedSum ==
  (/\ AllEncrypted
   /\ \A k \in Params : SignedSum(w_raw, updates, k) = SignedSum(w_raw, updates_alt, k))
  => \A i \in Miners : \A j, k \in Params :
       PairView(cts[i], j, k) = PairView(cts_alt[i], j, k)

\* ---- C3
\* C3: with an sk_FE derived over the keys, weights, weightScale and round
\* context the miners encrypted under, decrypt_aggregate returns at every
\* index k exactly S_k whenever |S_k| < bound and |S_k| < n/2.
C3_SignedRecovery ==
  (/\ Called /\ Consistent
   /\ \A k \in Params : Abs(TrueSum(k)) < result.bsgs_bound /\ Abs(TrueSum(k)) < N \div 2)
  => /\ result.kind = "ok"
     /\ \A k \in Params : result.vec[k] = TrueSum(k)

\* ---- C4
\* The first index whose sum the bound does not exceed
FirstOver(bound) ==
  CHOOSE k \in Params :
    /\ Abs(TrueSum(k)) >= bound
    /\ \A j \in Params : j < k => Abs(TrueSum(j)) < bound

\* C4 as stated: every call, with or without the plaintext argument, where
\* some |S_k| >= the supplied bsgs_bound raises the bound-insufficient
\* error and returns no vector.  (Read on the calls where nothing else can
\* go wrong: consistent parties, weights of at least 1, no sum of 0.)
C4_StatedBoundInsufficient ==
  (/\ Called /\ Consistent /\ IntegerWeights
   /\ result.bsgs_bound <= N \div 2
   /\ \A k \in Params : Abs(TrueSum(k)) < N \div 2 /\ TrueSum(k) # 0
   /\ \E k \in Params : Abs(TrueSum(k)) >= result.bsgs_bound)
  => result.kind = "BoundError" /\ result.vec = <<>>

\* C4 (amended): a call without the plaintext argument, consistent with
\* the miners, with bsgs_bound <= n/2 and every |S_k| < n/2, where some
\* |S_k| >= bsgs_bound, raises and returns no vector: the
\* bound-insufficient error at the first such index, unless the
\* aggregation itself raised before.  With the plaintext argument the
\* supplied bound is replaced by max(1024, |S_k| + 16).  No consistent call
\* returns a truncated or approximated value.
C4_BoundInsufficient ==
  /\ (/\ Called /\ ~result.plain /\ Consistent
      /\ result.bsgs_bound <= N \div 2
      /\ \A k \in Params : Abs(TrueSum(k)) < N \div 2
      /\ \E k \in Params : Abs(TrueSum(k)) >= result.bsgs_bound)
     => /\ result.kind \in {"BoundError", "TypeError"}
        /\ result.vec = <<>>
        /\ result.kind = "BoundError" => result.k = FirstOver(result.bsgs_bound)
        /\ IntegerWeights => result.kind = "BoundError"
  /\ (Called /\ Consistent /\ result.kind = "ok")
     => \A k \in Params : result.vec[k] = TrueSum(k)
  /\ (Called /\ result.plain)
     => \A e \in DOMAIN result.log :
          result.log[e][2] = Max2(MinBound, Abs(TrueSum(result.log[e][1])) + Margin)

\* The bound error was raised at the second index, after the first index
\* was recovered.
C4_Witness ==
  /\ Called /\ ~result.plain /\ Consistent
  /\ result.kind = "BoundError" /\ result.k = 2
  /\ result.bsgs_bound = MinBound
  /\ Abs(TrueSum(2)) >= result.bsgs_bound
  /\ Len(result.log) = 2

C6_BsgsVerified ==
  bsgsCall.called =>
    /\ bsgsCall.val >= -1
    /\ bsgsCall.val >= 0 =>
         /\ bsgsCall.val < bsgsCall.bound
         /\ SameElement(PointMul(G, bsgsCall.val), PointMul(G, bsgsCall.s))
    /\ (bsgsCall.s >= bsgsCall.bound /\ bsgsCall.s < N) => bsgsCall.val = -1

\* A call was refused a scalar that the giant steps reach (s < m * m) but
\* that is not below the bound.
C6_Witness ==
  /\ bsgsCall.called
  /\ bsgsCall.s >= bsgsCall.bound
  /\ bsgsCall.s < CeilSqrt(bsgsCall.bound) * CeilSqrt(bsgsCall.bound)
  /\ bsgsCall.val = -1

\* ---- C7
\* The bound a chunk [start:end] requires
Required(rng) == Max2(MinBound, MaxAbsS(w_raw, updates, rng[1], rng[2]) + Margin)
ChunksOf(chunk_size) == Chunks(Len(updates[1]), chunk_size)
NoChunkExceeds(chunk_size, cap) ==
  \A c \in DOMAIN ChunksOf(chunk_size) : Required(ChunksOf(chunk_size)[c]) <= cap

\* C7: on the same keys, ciphertexts, weights and weightScale, what
\* decrypt_aggregate_chunked returns (any chunk_size, a cap no chunk
\* exceeds) is at every index what decrypt_aggregate returns over the
\* whole vector with a sufficient bound; and where decrypt_aggregate
\* returns for consistent parties, the chunked call returns too.
C7_ChunkedEquivalence ==
  /\ (result.kind = "ok" /\ resultC.kind = "ok") => resultC.vec = result.vec
  /\ (/\ Consistent /\ result.kind = "ok" /\ CalledChunked
      /\ NoChunkExceeds(resultC.chunk_size, resultC.cap))
     => resultC.kind = "ok"

\* Both calls returned, the chunked one over several chunks, a vector
\* whose first and last entries differ.
C7_Witness ==
  /\ result.kind = "ok" /\ resultC.kind = "ok"
  /\ Len(resultC.log) >= 2
  /\ resultC.vec = result.vec
  /\ resultC.vec[1] # resultC.vec[Len(resultC.vec)]
  /\ resultC.vec[Len(resultC.vec)] # 0

\* ---- C8
\* C8: decrypt_aggregate_chunked raises and returns no vector whenever the
\* required bound of some chunk, max(1024, max |S_k| + 16), exceeds
\* max_chunk_bound_cap; the cap error names the [start:end] of such a
\* chunk; no chunk over the cap is handed to BSGS, and every chunk handed
\* to BSGS runs with its full required bound; a chunk whose required bound
\* is <= the cap is never rejected for the cap.
C8_CapHardFailure ==
  CalledChunked =>
    LET chunks == ChunksOf(resultC.chunk_size)
        cap == resultC.cap
    IN  /\ (\E c \in DOMAIN chunks : Required(chunks[c]) > cap)
           => resultC.kind # "ok" /\ resultC.vec = <<>>
        /\ \A c \in DOMAIN chunks :
             Required(chunks[c]) > cap => Len(resultC.log) < c
        /\ resultC.kind = "CapError" =>
             \E c \in DOMAIN chunks :
               /\ chunks[c] = <<resultC.start, resultC.end>>
               /\ Required(chunks[c]) > cap
               /\ Len(resultC.log) = c - 1
        /\ \A e \in DOMAIN resultC.log :
             /\ chunks[e] = <<resultC.log[e][1], resultC.log[e][2]>>
             /\ resultC.log[e][3] = Required(chunks[e])
             /\ resultC.log[e][3] <= cap
        /\ (\A c \in DOMAIN chunks : Required(chunks[c]) <= cap)
           => resultC.kind # "CapError"

\* The cap error named the second chunk, after the first chunk ran.
C8_Witness ==
  /\ resultC.kind = "CapError"
  /\ resultC.start >= 1
  /\ Len(resultC.log) >= 1
  /\ Required(<<resultC.start, resultC.end>>) > resultC.cap
  /\ resultC.cap >= MinBound

\* ---- C9
\* C9: with the plaintext updates passed, the mismatch error is raised at
\* index k exactly when E*_k is a different group element from
\* (sum of w_i * x_i[k] mod n) * G: never when keys, weights, weightScale
\* and round context agree (also where the weighted sum is 0), and before
\* any BSGS recovery for that index when they disagree.
C9_MismatchExact ==
  (Called /\ result.plain /\ IntegerWeights) =>
    /\ result.kind = "MismatchError" =>
         /\ ~SameElement(EStarAt(result.k), ExpectedAt(result.k))
         /\ \A e \in DOMAIN result.log : result.log[e][1] # result.k
    /\ Consistent => result.kind # "MismatchError"
    /\ \A k \in Params :
         (/\ ~SameElement(EStarAt(k), ExpectedAt(k))
          /\ \A j \in Params : j < k => SameElement(EStarAt(j), ExpectedAt(j)))
         => result.kind = "MismatchError" /\ result.k = k

\* ---- C10
\* The discrete logarithm of the weighted sum of the miners' mask points
MaskSumLog ==
  SeqSum([i \in Miners |-> w_mod[i] * Log(PointMul(pk_TP, r_miner[i]))]) % N

\* C10: under the same round context the mask seed miner i derives from
\* pk_TP * sk_miner is the one key_derive derives from pk_miner * sk_TP,
\* the weighted sum of the miners' mask points is pk_TP * sk_FE, and the
\* mask cancels in decrypt_aggregate: E*_k is S_k * G.
C10_MaskSeedAgreement ==
  Consistent =>
    /\ \A i \in Miners :
         (cts[i] # <<>> /\ sk_FE # NoKey) => r_miner[i] = r_TP[i]
    /\ Ready => MaskSumLog = Log(PointMul(pk_TP, sk_FE))
    /\ Ready => \A k \in Params :
                  \/ EStarAt(k) = TypeError
                  \/ SameElement(EStarAt(k), PointMul(G, TrueSum(k) % N))

\* All miners encrypted and the key was derived under one round context,
\* with distinct seeds and a mask sum that is not the identity.
C10_Witness ==
  /\ Consistent /\ Ready
  /\ sk_TP = N - 1
  /\ \A i, j \in Miners : i # j => r_miner[i] # r_miner[j]
  /\ \A i \in Miners : r_miner[i] = r_TP[i]
  /\ MaskSumLog # 0
  /\ MaskSumLog = Log(PointMul(pk_TP, sk_FE))

\* ------------------------------------------------------- the compressor
DgcReturned == dgcCall.kind = "returned"
StrictlyIncreasing(s) == \A i, j \in 1..Len(s) : i < j => s[i] < s[j]

\* C11: every result (indices, values, scale) of compress_and_quantize has
\* as many values as indices, strictly increasing indices within [0, n),
\* every |value| <= max_int, and scale > 0.
C11_ResultInvariants ==
  DgcReturned =>
    /\ Len(dgcCall.indices) = Len(dgcCall.values)
    /\ StrictlyIncreasing(dgcCall.indices)
    /\ \A j \in 1..Len(dgcCall.indices) : dgcCall.indices[j] >= 0 /\ dgcCall.indices[j] < Len(dgcCall.raw)
    /\ \A j \in 1..Len(dgcCall.values) : Abs(dgcCall.values[j]) <= dgc.max_int
    /\ dgcCall.scale[1] > 0 /\ dgcCall.scale[2] > 0


Positions == 0..(Len(dgcCall.raw) - 1)
Emitted(i) == \E j \in 1..Len(dgcCall.indices) : dgcCall.indices[j] = i
\* the float a sparse residual holds at position i: 0 where it holds nothing
Held(r, i) == IF \E j \in 1..Len(r.idx) : r.idx[j] = i THEN r.vals[CHOOSE j \in 1..Len(r.idx) : r.idx[j] = i] ELSE 0
Holds(r, i) == \E j \in 1..Len(r.idx) : r.idx[j] = i
RawNonZero == \E i \in Positions : dgcCall.raw[i + 1] # 0

\* C12: after a compress_and_quantize call on a vector that is not all
\* zero, the stored residual holds at every unselected position the true
\* accumulated value (this call's input plus the residual the previous call
\* left there, not quantized) and holds nothing at any selected position;
\* the vector the call selected from is its input plus exactly the residual
\* the previous call stored.
C12_ResidualBookkeeping ==
  (DgcReturned /\ RawNonZero) =>
    \A i \in Positions :
      /\ dgcCall.flat[i + 1] = dgcCall.raw[i + 1] + Held(dgcCall.prev, i)
      /\ Emitted(i) => ~Holds(dgc.residual_sparse, i)
      /\ ~Emitted(i) => Held(dgc.residual_sparse, i) = dgcCall.raw[i + 1] + Held(dgcCall.prev, i)

\* a second call found a residual with a non-zero entry, added it, emitted
\* some positions and stored the others
C12_Witness ==
  /\ DgcReturned /\ RawNonZero
  /\ \E i \in Positions : Held(dgcCall.prev, i) # 0 /\ ~Emitted(i) /\ Held(dgc.residual_sparse, i) # dgcCall.raw[i + 1]
  /\ \E i \in Positions : Emitted(i)


EmptyResult == dgcCall.indices = <<>> /\ dgcCall.values = <<>> /\ dgcCall.scale = <<One(dgc.unit), 1>> /\ dgc.residual_sparse = EmptyResidual
FlatAllZero == \A i \in Positions : dgcCall.flat[i + 1] = 0

\* C14 as stated: a call with an all-zero input returns empty indices,
\* empty values and scale 1.0 and leaves an empty residual, in every
\* compressor state reached by earlier calls.
C14_StatedAllZeroInput == (DgcReturned /\ ~RawNonZero) => EmptyResult

\* C14: a call returns empty indices, empty values and scale 1.0 and leaves
\* an empty residual exactly when its input plus the carried residual is
\* all zero; an all-zero input is then compressed as the carried residual.
C14_AllZeroShortCircuit ==
  DgcReturned =>
    /\ FlatAllZero <=> EmptyResult
    /\ ~RawNonZero => \A i \in Positions : dgcCall.flat[i + 1] = Held(dgcCall.prev, i)

\* an all-zero input after earlier calls whose residual holds entries that
\* are all zero
C14_Witness == DgcReturned /\ ~RawNonZero /\ FlatAllZero /\ dgc.calls >= 2 /\ Len(dgcCall.prev.idx) > 0 /\ EmptyResult


ValueAt(i) == dgcCall.values[CHOOSE j \in 1..Len(dgcCall.indices) : dgcCall.indices[j] = i]

\* C15: decompress_from_sparse of a compress_and_quantize result equals
\* values[i] * scale at each emitted index and 0 at every other position,
\* and at each emitted index differs from the true compressed value (the
\* input plus the carried residual) by at most scale / 2.
C15_DecompressError ==
  DgcReturned =>
    \A i \in Positions :
      /\ ~Emitted(i) => dgcCall.dense[i + 1][1] = 0
      /\ Emitted(i) => dgcCall.dense[i + 1] = <<ValueAt(i) * dgcCall.scale[1], dgcCall.scale[2]>>
      /\ Emitted(i) => 2 * Abs(dgcCall.flat[i + 1] * dgcCall.scale[2] - dgcCall.dense[i + 1][1]) <= dgcCall.scale[1]


\* clamp(floor(n * (1 - tau)), min_nonzeros, n) in exact arithmetic
ClampedK == Min2(Max2((Len(dgcCall.raw) * (dgc.tau[2] - dgc.tau[1])) \div dgc.tau[2], dgc.min_nonzeros), Len(dgcCall.raw))
Magnitude(i) == Abs(dgcCall.flat[i + 1])

\* C20: for a vector v (the input plus the carried residual) of n elements
\* that is not all zero, compress_and_quantize emits exactly
\* k = clamp(floor(n * (1 - tau)), min_nonzeros, n) indices, and they are
\* the k largest-magnitude elements with ties going to the lower index.
C20_TopKSelection ==
  (DgcReturned /\ ~FlatAllZero) =>
    /\ Len(dgcCall.indices) = ClampedK
    /\ \A i, j \in Positions : (Emitted(i) /\ ~Emitted(j)) => (Magnitude(i) > Magnitude(j) \/ (Magnitude(i) = Magnitude(j) /\ i < j))


\* ------------------------------------------------------- the leaf codec
Unpacked == leafCall.kind = "unpacked"
\* the arguments the claim ranges over: equal-length sequences, each index
\* in the unsigned and each value in the signed 8-byte range, a nonce
\* shorter than 2^16 bytes
InLeafRange ==
  /\ \A j \in 1..Len(leafCall.indices) : leafCall.indices[j] >= 0 /\ leafCall.indices[j] < Unsigned(WordLen)
  /\ \A j \in 1..Len(leafCall.values) : 2 * leafCall.values[j] >= -Unsigned(WordLen) /\ 2 * leafCall.values[j] < Unsigned(WordLen)
  /\ Len(leafCall.nonce) < Unsigned(NonceLenLen)

\* C16: unpack_leaf(pack_leaf(addr, indices, values, nonce)) returns
\* exactly (addr, indices, values, nonce) for every 20-byte address, every
\* pair of equal-length sequences with each index in [0, 2^64) and each
\* value in [-2^63, 2^63), and every nonce shorter than 2^16 bytes.
C16_LeafRoundTrip ==
  (Unpacked /\ InLeafRange /\ leafCall.raw = leafCall.leaf.raw) =>
    leafCall.out = [kind |-> "returned", addr |-> leafCall.addr, indices |-> leafCall.indices, values |-> leafCall.values, nonce |-> leafCall.nonce]


\* raw is exactly a pack_leaf layout: 20 address bytes, a count, that many
\* 16-byte entries, a nonce length, and exactly that many nonce bytes
DeclaredCount(raw) == FromBigEndian(Slice(raw, AddrLen, AddrLen + CountLen))
DeclaredNonceLen(raw) == FromBigEndian(Slice(raw, EntryOffset(DeclaredCount(raw) + 1), EntryOffset(DeclaredCount(raw) + 1) + NonceLenLen))
IsLeafLayout(raw) ==
  /\ Len(raw) >= AddrLen + CountLen
  /\ Len(raw) >= EntryOffset(DeclaredCount(raw) + 1) + NonceLenLen
  /\ Len(raw) = EntryOffset(DeclaredCount(raw) + 1) + NonceLenLen + DeclaredNonceLen(raw)

\* C17: for every byte string that is not exactly a pack_leaf layout,
\* unpack_leaf raises an error and returns no decoded tuple.
C17_MalformedRaises == (Unpacked /\ ~IsLeafLayout(leafCall.raw)) => leafCall.out.kind # "returned"


\* ------------------------------------------------- the parallel chunked call
\* C18: decrypt_aggregate_chunked with parallel=True returns the same
\* vector as with parallel=False on the same arguments.
C18_ParallelEquivalence ==
  (resultC.kind = "ok" /\ resultP.kind # "none" /\ resultP.chunk_size = resultC.chunk_size /\ resultP.cap = resultC.cap) =>
    (resultP.kind = "ok" /\ resultP.vec = resultC.vec)


\* ------------------------------------------------------ the baby-step cache
\* the entry under m is complete: it maps the key of j * G to j for every j
\* in [0, m), the identity to 0, and nothing else
CompleteTable(baby, m) ==
  /\ DOMAIN baby = {KeyNone} \cup {_point_key(PointMul(G, j)) : j \in 1..(m - 1)}
  /\ baby[KeyNone] = 0
  /\ \A j \in 1..(m - 1) : baby[_point_key(PointMul(G, j))] = j

\* every visible entry is complete, and every caller past
\* _precompute_babysteps, having built the table or found it in the cache,
\* holds the table the cache holds under its m
CacheComplete ==
  /\ \A m \in DOMAIN BABY_CACHE : CompleteTable(BABY_CACHE[m], m)
  /\ \A w \in DOMAIN workers : workers[w].pc = "search" => (CompleteTable(workers[w].baby, workers[w].m) /\ BABY_CACHE[workers[w].m] = workers[w].baby)

\* C19: after any interleaving of bsgs_cached calls, every entry visible in
\* the baby-step cache is complete and determined by its key m alone (the
\* key of j * G maps to j for every j in [0, m), the identity to 0), so an
\* entry is visible only once fully built and populating the same m twice
\* stores the same table; and no step of any call changes or removes an
\* entry that is visible, so a later call with the same m reuses it
\* unchanged.
C19_CacheEntriesComplete == []CacheComplete /\ [][\A m \in DOMAIN BABY_CACHE : m \in DOMAIN BABY_CACHE' /\ BABY_CACHE'[m] = BABY_CACHE[m]]_vars

\* two callers built the table of the same m >= 3 concurrently and both
\* stored it
C19_Witness ==
  /\ workers # NoWorkers
  /\ \E w1, w2 \in DOMAIN workers : w1 # w2 /\ workers[w1].pc = "search" /\ workers[w2].pc = "search" /\ workers[w1].built /\ workers[w2].built /\ workers[w1].m = workers[w2].m /\ workers[w1].m >= 3


\* -------------------------------------------- the compressor: clipping
\* what np.rint(v / scale).astype(INT_DTYPE) can be at position i before
\* the clip, over the outcomes of the cast
UnclippedChoices(i) == {RintCast(dgcCall.flat[i + 1], dgcCall.scale, cast) : cast \in CastChoices}
\* the clip of line 111 changed the value transmitted for position i
WasClipped(i) == Emitted(i) /\ \E u \in UnclippedChoices(i) : u # ValueAt(i) /\ Clip(u, -dgc.max_int, dgc.max_int) = ValueAt(i)
\* scale[2] times the part of the true value at i that values[i] * scale
\* does not represent
Unrepresented(i) == dgcCall.flat[i + 1] * dgcCall.scale[2] - ValueAt(i) * dgcCall.scale[1]

\* C21: whenever compress_and_quantize transmits for a selected element a
\* value that was clipped to +-max_int, the part of the element's true
\* value that value * scale does not represent is held by the residual at
\* that position (from where the next call adds it to its input).
C21_ClippedDeferred ==
  DgcReturned =>
    \A i \in Positions : WasClipped(i) => Held(dgc.residual_sparse, i) * dgcCall.scale[2] = Unrepresented(i)

\* C30: the clip to +-max_int never changes a value, and the
\* largest-magnitude selected element is transmitted as exactly +max_int or
\* -max_int.
C30_ClipIsIdentity ==
  (DgcReturned /\ ~FlatAllZero) =>
    /\ \A i \in Positions : ~WasClipped(i)
    /\ \A i \in Positions : (Emitted(i) /\ \A j \in Positions : Emitted(j) => Magnitude(j) <= Magnitude(i)) => Abs(ValueAt(i)) = dgc.max_int


\* ------------------------------------------------------- the chunk ranges
\* the chunk [start, end) that decrypt_aggregate_chunked handed on as its
\* e-th, and what solve_chunk recovers on it
LoggedChunk(e) == <<resultC.log[e][1], resultC.log[e][2]>>
ChunkVec(e) == solve_chunk(sk_FE, sk_A, pk_TP, cts, weights_y, updates, scale_weights, resultC.log[e][1], resultC.log[e][2], resultC.cap, BABY_CACHE).vec
Containing(p) == {e \in DOMAIN resultC.log : resultC.log[e][1] <= p /\ p < resultC.log[e][2]}

\* C26: decrypt_aggregate_chunked works on the consecutive chunks
\* [i, min(L, i + chunk_size)) for i = 0, chunk_size, 2 * chunk_size, ...;
\* they are non-empty, pairwise disjoint and cover [0, L) exactly; on
\* success every position of the result holds what the one chunk that
\* contains it recovered there, and a failure in any chunk returns no
\* vector.
C26_ChunksPartition ==
  CalledChunked =>
    LET L == Len(cts[1])
        cs == resultC.chunk_size
    IN  /\ \A e \in DOMAIN resultC.log :
             /\ LoggedChunk(e) = <<(e - 1) * cs, Min2(L, (e - 1) * cs + cs)>>
             /\ resultC.log[e][1] < resultC.log[e][2]
             /\ \A f \in DOMAIN resultC.log : e < f => resultC.log[e][2] <= resultC.log[f][1]
        /\ resultC.kind = "ok" =>
             /\ Len(resultC.vec) = L
             /\ \A p \in 0..(L - 1) : Cardinality(Containing(p)) = 1
             /\ \A e \in DOMAIN resultC.log : \E vec \in {ChunkVec(e)} :
                  \A p \in resultC.log[e][1]..(resultC.log[e][2] - 1) : resultC.vec[p + 1] = vec[p + 1 - resultC.log[e][1]]
        /\ resultC.kind # "ok" => resultC.vec = <<>>

\* a vector recovered from several chunks, its last entry not zero
C26_Witness ==
  /\ resultC.kind = "ok"
  /\ Len(resultC.log) >= 2
  /\ resultC.vec[Len(resultC.vec)] # 0
  /\ Cardinality(Containing(Len(resultC.vec) - 1)) = 1


\* the aggregator: the retry loop
TriedBound(j) == aggCall.tried[j][1]
TriedOutcome(j) == aggCall.tried[j][2]
LastTried == aggCall.tried[Len(aggCall.tried)]
StatedStart == Min2(Max2(RetryFloor, SumAbs(WeightsRaw(aggCall.weights, AggScaleWeights)) * AggMaxInt + Margin), RetryStartCap)
FailedToRecover == aggCall.pc = "raised" /\ aggCall.status = "ValueError: Failed to recover aggregate vector"
\* what the retry loop does apart from the growth of its bounds: the first
\* bound, the cap, the errors it retries after, and the error it ends with
RetryLoopFrame ==
  /\ aggCall.tried # <<>> => TriedBound(1) = StatedStart
  /\ \A j \in DOMAIN aggCall.tried : TriedBound(j) <= MaxBoundCap
  /\ \A j \in 1..(Len(aggCall.tried) - 1) : TriedBound(j) < TriedBound(j + 1) /\ TriedOutcome(j) = "BoundError"
  /\ (aggCall.pc = "raised" /\ aggCall.tried # <<>> /\ ~FailedToRecover) => (LastTried[2] = "TypeError" /\ aggCall.status = "TypeError")
  /\ (aggCall.tried # <<>> /\ LastTried[2] = "TypeError") => aggCall.pc = "raised"
  /\ FailedToRecover => (aggCall.tried # <<>> /\ LastTried = <<MaxBoundCap, "BoundError">>)
  /\ (aggCall.pc = "finish" /\ aggCall.tried # <<>>) => ((aggCall.recovered # NoVector /\ LastTried[2] = "ok") \/ LastTried = <<MaxBoundCap, "BoundError">>)

\* C25 as stated: the retry loop starts at min(max(2^24, sum |w_i| * max_int
\* + 16), 2^30), every bound it tries is four times the previous one and at
\* most 2^34, it retries only after a BSGS-bound error, and it raises
\* 'Failed to recover aggregate vector' only once the 2^34 attempt failed.
C25_EachFourTimes == RetryLoopFrame /\ \A j \in 1..(Len(aggCall.tried) - 1) : TriedBound(j + 1) = GrowthFactor * TriedBound(j)

\* C25 (amended): the retry loop starts at min(max(2^24, sum |w_i| * max_int
\* + 16), 2^30); every later bound is the smaller of four times the previous
\* one and 2^34, and strictly larger than the previous one; it retries only
\* after a BSGS-bound error, any other error ending the call at once; and a
\* call that has entered the loop always leaves it, with the recovered
\* vector or raising, 'Failed to recover aggregate vector' being raised
\* only once the attempt with 2^34 has failed.
C25_RetryLoop ==
  /\ [](RetryLoopFrame /\ \A j \in 1..(Len(aggCall.tried) - 1) : TriedBound(j + 1) = Min2(GrowthFactor * TriedBound(j), MaxBoundCap))
  /\ (aggCall.pc = "retry") ~> (aggCall.pc = "raised" \/ (aggCall.pc = "returned" /\ aggCall.recovered # NoVector))

C25_Witness == FailedToRecover /\ Len(aggCall.tried) = 5 /\ TriedBound(5) = MaxBoundCap /\ TriedBound(5) # GrowthFactor * TriedBound(4) /\ TriedBound(1) > RetryFloor /\ TriedBound(1) < RetryStartCap


\* the aggregator: the current model and the round counter
AggCallEnded == aggCall.pc \in {"returned", "raised"}
NoKeyRaised == aggCall.pc = "raised" /\ aggCall.status = "ValueError: Functional key (sk_FE) not set"

\* C27: a call of secure_aggregate_and_evaluate changes W_current only when
\* it returns RETRAIN, and then to W_current plus the decompressed update;
\* while the call runs, and when it returns FAIL_INSUFFICIENT_MINERS,
\* AWAITING_VERIFICATION or FAILED_MAX_ROUNDS or raises, W_current is the
\* model the call found.
C27_ModelChangesOnRetrainOnly ==
  IF aggCall.pc = "returned" /\ aggCall.status = "RETRAIN"
  THEN aggregator.W_current = PlusUpdate(aggCall.W_before, aggCall.recovered) /\ aggCall.value = aggregator.W_current
  ELSE aggregator.W_current = aggCall.W_before

C27_Witness == aggCall.pc = "returned" /\ aggCall.status = "RETRAIN" /\ aggregator.W_current # aggCall.W_before /\ aggregator.calls >= 2

\* C28: every call that passes the functional-key check adds one to the
\* round counter, also when it returns FAIL_INSUFFICIENT_MINERS, and a call
\* that fails the check adds nothing; RETRAIN is returned only with the
\* counter below max_rounds, so that one aggregator returns it at most
\* max_rounds - 1 times; and a call that misses the accuracy target with
\* the counter at max_rounds or above returns FAILED_MAX_ROUNDS.
C28_RetrainBelowMaxRounds ==
  /\ aggCall.pc # "idle" => aggregator.round_ctr = aggCall.ctr_before + (IF NoKeyRaised THEN 0 ELSE 1)
  /\ (aggCall.pc = "returned" /\ aggCall.status = "RETRAIN") => aggregator.round_ctr < aggregator.max_rounds
  /\ aggregator.retrains <= aggregator.max_rounds - 1
  /\ (aggCall.pc = "returned" /\ aggCall.acc_ok = "missed" /\ aggregator.round_ctr >= aggregator.max_rounds) => (aggCall.status = "FAILED_MAX_ROUNDS" /\ aggCall.value = aggCall.W_before)

C28_Witness == aggCall.pc = "returned" /\ aggCall.status = "FAILED_MAX_ROUNDS" /\ aggregator.retrains = aggregator.max_rounds - 1 /\ aggregator.retrains >= 1 /\ aggregator.round_ctr > aggregator.max_rounds


\* the simulation server
\* C29: at most one simulation thread is active at a time, and a request
\* to /run-simulation or /select-participants that arrives while a
\* simulation thread is running, or has been started and has not yet set
\* the status to 'running', is refused with 409 and starts no thread.
C29_OneSimulationThread ==
  /\ Cardinality(ActiveThreads) <= 1
  /\ \A r \in Requests : server.requests[r].during => server.requests[r].pc = "409"


\* the orchestrated rounds
Rounds == DOMAIN orch.history
ReachedDecryption(h) == orch.history[h].status # "FAIL_INSUFFICIENT_MINERS"

\* C22: a functional key and its round context serve one aggregation
\* round: no two rounds of the task encrypt under the same (counter,
\* task_id) pair, and no two rounds decrypt with the sk_FE of the same
\* derivation.
C22_KeyServesOneRound ==
  \A a, b \in Rounds : a < b =>
    /\ <<orch.history[a].enc_ctr, orch.history[a].enc_task_id>> # <<orch.history[b].enc_ctr, orch.history[b].enc_task_id>>
    /\ orch.history[a].key.serial # orch.history[b].key.serial

\* C23: in every round that reaches decryption the miners whose
\* ciphertexts the aggregator combines, their order, their weights and the
\* weight scale are those of the setup_round call that derived the sk_FE
\* in use, also when submissions without ciphertext were dropped, and the
\* functional mask is removed exactly at every parameter.
C23_KeyMatchesAggregation ==
  \A h \in Rounds : ReachedDecryption(h) =>
    /\ orch.history[h].combined = orch.history[h].key.miners
    /\ orch.history[h].weights = orch.history[h].key.weights
    /\ orch.history[h].scale = orch.history[h].key.scale
    /\ orch.history[h].exact

\* C24: in every round of both orchestrators the counter the miners pass
\* to encrypt_integer_vector is the counter the sk_FE held by the
\* aggregator was derived with, also in a round that follows RETRAIN.
C24_EncryptCounterIsKeyCounter ==
  /\ orch.pc = "aggregate" => orch.enc_ctr = round.ctr
  /\ \A h \in Rounds : orch.history[h].enc_ctr = orch.history[h].key.ctr

=============================================================================
